---- MODULE Spec2Model ----
(***************************************************************************)
(* Model of pallet-chainlink-feed (src/pallet-chainlink-feed/src/lib.rs):  *)
(* the storage items of decl_storage!, the dispatchables of decl_module!   *)
(* on feeds, rounds, oracles, requesters and funds, each as a function from *)
(* a storage snapshot to a result and a new snapshot, and the FeedOracle    *)
(* trait implementation.                                                   *)
(*                                                                         *)
(* A dispatchable handler  h(S, args)  returns  [res, st] :  res is "Ok" or *)
(* the name of the error, st the storage the call leaves behind.  The code  *)
(* that runs inside with_transaction_result returns the storage as written  *)
(* up to the failing statement; with_transaction_result discards it.        *)
(***************************************************************************)
EXTENDS Integers, Sequences, FiniteSets, TLC

(***************************************************************************)
(* Bounds of the model.                                                    *)
(***************************************************************************)
MaxFeeds == 1          \* create_feed is explored while FeedCounter < MaxFeeds
MaxRound == 3          \* rounds are opened while reporting_round < MaxRound
MaxBlock == 3          \* the block number advances up to MaxBlock
MaxLen == 3            \* length of the slices median is applied to on its own
InitialFunds == 3      \* free balance of the pallet account at genesis

(***************************************************************************)
(* Configuration of the runtime (associated types and Get<_> parameters).  *)
(***************************************************************************)
IdMax == 65535                 \* T::FeedId and T::RoundId, instantiated with u16
CountMax == 2147483647         \* u32 counts, capped at the largest integer of TLC
ValueMax == 7                  \* T::Value, instantiated with a 3 bit unsigned
BalanceMax == 1000             \* BalanceOf<T>
PruningWindow == 1             \* T::PruningWindow
OracleCountLimit == 2          \* T::OracleCountLimit
MinimumReserve == 1            \* T::MinimumReserve
StringLimit == 2               \* T::StringLimit
ExistentialDeposit == 1        \* pallet_balances::Trait::ExistentialDeposit

Fund == 0                      \* T::ModuleId::get().into_account()
Accounts == 0 .. 4

VARIABLES
    now,                \* frame_system::Module::<T>::block_number()
    PalletAdmin,
    PendingPalletAdmin,
    FeedCounter,
    Feeds,              \* feed id -> FeedConfig
    Rounds,             \* <<feed id, round id>> -> Round
    Details,            \* <<feed id, round id>> -> RoundDetails
    Oracles,            \* account -> OracleMeta
    OracleStati,        \* <<feed id, account>> -> OracleStatus
    Requesters,         \* <<feed id, account>> -> Requester
    free,               \* account -> free balance (T::Currency)
    reserved,           \* account -> reserved balance (T::Currency)
    accepted,           \* history: <<feed, round>> -> the values accepted for the round, in order
    reported,           \* history: <<feed, account>> -> the rounds of the account's accepted submissions
    maxed,              \* history: the <<feed, round>>s whose maximum count was reached
    slice,              \* the slice passed to median when it is run on its own
    median_of           \* Some([of, is]): the slice median was called with and its result

vars == << now, PalletAdmin, PendingPalletAdmin, FeedCounter, Feeds, Rounds,
           Details, Oracles, OracleStati, Requesters, free, reserved,
           accepted, reported, maxed, slice, median_of >>

(***************************************************************************)
(* Option<T>, storage maps and checked arithmetic.                         *)
(***************************************************************************)
None == << >>
Some(x) == << x >>
is_some(o) == o # << >>
is_none(o) == o = << >>
unwrap(o) == o[1]
unwrap_or(o, d) == IF o = << >> THEN d ELSE o[1]

EmptyMap == [x \in {} |-> 0]
Get(m, k) == IF k \in DOMAIN m THEN Some(m[k]) ELSE None
Insert(m, k, v) == [x \in (DOMAIN m) \cup {k} |-> IF x = k THEN v ELSE m[x]]
Remove(m, k) == [x \in (DOMAIN m) \ {k} |-> m[x]]

checked_add(a, b, max) == IF a + b > max THEN None ELSE Some(a + b)
\* checked_sub without the check.
checked_sub_below(a, b) == Some(a - b)
checked_sub(a, b) == IF a < b THEN None ELSE Some(a - b)
\* saturating_add without the saturation.
saturating_add_plain(a, b, max) == a + b
saturating_add(a, b, max) == IF a + b > max THEN max ELSE a + b
\* saturating_sub that subtracts nothing.
saturating_sub_nothing(a, b) == a
saturating_sub(a, b) == IF a < b THEN 0 ELSE a - b
Min(a, b) == IF a < b THEN a ELSE b
Max(a, b) == IF a > b THEN a ELSE b

Ok(S) == [res |-> "Ok", st |-> S]
Err(e, S) == [res |-> e, st |-> S]

(***************************************************************************)
(* The persisted state as one value.                                       *)
(***************************************************************************)
St == [ PalletAdmin |-> PalletAdmin, PendingPalletAdmin |-> PendingPalletAdmin,
        FeedCounter |-> FeedCounter, Feeds |-> Feeds, Rounds |-> Rounds,
        Details |-> Details, Oracles |-> Oracles, OracleStati |-> OracleStati,
        Requesters |-> Requesters, free |-> free, reserved |-> reserved ]

\* with_transaction_result without the rollback: the writes of a failing
\* closure are committed.
with_transaction_result_commit(S, r) == r

with_transaction_result(S, r) == IF r.res = "Ok" THEN r ELSE [res |-> r.res, st |-> S]

(***************************************************************************)
(* median: sort, then the middle element or the saturating mean of the two *)
(* middle elements.                                                        *)
(***************************************************************************)
\* numbers.sort_unstable(): the slice the caller passed is sorted in place
sort_unstable(numbers) == SortSeq(numbers, LAMBDA a, b : a < b)

median(numbers) ==
    LET sorted == sort_unstable(numbers)
        mid == Len(numbers) \div 2
    IN  IF Len(numbers) % 2 = 0
        THEN saturating_add(sorted[mid], sorted[mid + 1], ValueMax) \div 2
        ELSE sorted[mid + 1]

(***************************************************************************)
(* T::Currency (pallet_balances): reserve and transfer with KeepAlive.     *)
(***************************************************************************)
Currency_reserve_nothing(S, who, value) == Ok(S)

Currency_reserve(S, who, value) ==
    IF value = 0 THEN Ok(S)
    ELSE IF S.free[who] < value THEN Err("InsufficientBalance", S)
    ELSE Ok([S EXCEPT !.free[who] = @ - value, !.reserved[who] = @ + value])

Currency_transfer(S, source, dest, value) ==
    IF value = 0 \/ source = dest THEN Ok(S)
    ELSE IF S.free[source] < value THEN Err("InsufficientBalance", S)
    ELSE IF S.free[dest] + value < ExistentialDeposit THEN Err("ExistentialDeposit", S)
    ELSE IF S.free[source] - value < ExistentialDeposit THEN Err("KeepAlive", S)
    ELSE Ok([S EXCEPT !.free[source] = @ - value, !.free[dest] = @ + value])

(***************************************************************************)
(* Module helpers.                                                         *)
(***************************************************************************)
\* The validity check without the ensure! for OracleDisabled.
ensure_round_valid_for_ended(S, feed, acc, round_id) ==
    LET o == Get(S.OracleStati, << feed, acc >>)
    IN  IF is_none(o) THEN "NotOracle"
        ELSE IF ~(unwrap(o).starting_round <= round_id) THEN "OracleNotEnabled"
        ELSE IF ~(is_none(unwrap(o).last_reported_round)
                  \/ unwrap(unwrap(o).last_reported_round) < round_id) THEN "ReportingOrder"
        ELSE "Ok"

ensure_round_valid_for(S, feed, acc, round_id) ==
    LET o == Get(S.OracleStati, << feed, acc >>)
    IN  IF is_none(o) THEN "NotOracle"
        ELSE IF ~(unwrap(o).starting_round <= round_id) THEN "OracleNotEnabled"
        ELSE IF ~(is_none(unwrap(o).ending_round)
                  \/ unwrap(unwrap(o).ending_round) >= round_id) THEN "OracleDisabled"
        ELSE IF ~(is_none(unwrap(o).last_reported_round)
                  \/ unwrap(unwrap(o).last_reported_round) < round_id) THEN "ReportingOrder"
        ELSE "Ok"

\* timed_out without the condition on started_at.
timed_out_from_genesis(S, feed, round_id) ==
    LET started_at == IF << feed, round_id >> \in DOMAIN S.Rounds
                      THEN S.Rounds[<< feed, round_id >>].started_at ELSE 0
        timeout == IF << feed, round_id >> \in DOMAIN S.Details
                   THEN S.Details[<< feed, round_id >>].timeout ELSE 0
        block_num == now
    IN  timeout > 0 /\ started_at + timeout < block_num

timed_out(S, feed, round_id) ==
    LET started_at == IF << feed, round_id >> \in DOMAIN S.Rounds
                      THEN S.Rounds[<< feed, round_id >>].started_at ELSE 0
        timeout == IF << feed, round_id >> \in DOMAIN S.Details
                   THEN S.Details[<< feed, round_id >>].timeout ELSE 0
        block_num == now
    IN  started_at > 0 /\ timeout > 0 /\ started_at + timeout < block_num

\* close_timed_out_round that stores the record it has updated.
close_timed_out_round_stored(S, feed, timed_out_id) ==
    LET prev_id == saturating_sub(timed_out_id, 1)
        prev_round == Get(S.Rounds, << feed, prev_id >>)
        timed_out_round == Get(S.Rounds, << feed, timed_out_id >>)
    IN  IF is_none(prev_round) THEN Err("RoundNotFound", S)
        ELSE IF is_none(timed_out_round) THEN Err("RoundNotFound", S)
        ELSE Ok([S EXCEPT !.Details = Remove(@, << feed, timed_out_id >>),
                          !.Rounds = Insert(@, << feed, timed_out_id >>,
                             [unwrap(timed_out_round) EXCEPT
                                !.answer = unwrap(prev_round).answer,
                                !.answered_in_round = unwrap(prev_round).answered_in_round,
                                !.updated_at = Some(now)])])

\* The updated record timed_out_round is a local of the function: the code
\* never writes it back to Rounds; only the removal of the details persists.
close_timed_out_round(S, feed, timed_out_id) ==
    LET prev_id == saturating_sub(timed_out_id, 1)
        prev_round == Get(S.Rounds, << feed, prev_id >>)
        timed_out_round == Get(S.Rounds, << feed, timed_out_id >>)
    IN  IF is_none(prev_round) THEN Err("RoundNotFound", S)
        ELSE IF is_none(timed_out_round) THEN Err("RoundNotFound", S)
        ELSE Ok([S EXCEPT !.Details = Remove(@, << feed, timed_out_id >>)])

\* initialize_round that stores the details of the new round only.
initialize_round_details_only(S, feed_id, feed, new_round_id) ==
    LET prev_round_id == saturating_sub(new_round_id, 1)
        closed == IF timed_out(S, feed_id, prev_round_id)
                  THEN close_timed_out_round(S, feed_id, prev_round_id)
                  ELSE Ok(S)
        S1 == closed.st
    IN  IF closed.res # "Ok" THEN closed
        ELSE Ok([S1 EXCEPT
                 !.Details = Insert(@, << feed_id, new_round_id >>,
                     [ submissions |-> << >>,
                       submission_count_bounds |-> feed.submission_count_bounds,
                       payment_amount |-> feed.payment_amount,
                       timeout |-> feed.timeout ])])

initialize_round(S, feed_id, feed, new_round_id) ==
    LET prev_round_id == saturating_sub(new_round_id, 1)
        closed == IF timed_out(S, feed_id, prev_round_id)
                  THEN close_timed_out_round(S, feed_id, prev_round_id)
                  ELSE Ok(S)
        S1 == closed.st
    IN  IF closed.res # "Ok" THEN closed
        ELSE Ok([S1 EXCEPT
                 !.Details = Insert(@, << feed_id, new_round_id >>,
                     [ submissions |-> << >>,
                       submission_count_bounds |-> feed.submission_count_bounds,
                       payment_amount |-> feed.payment_amount,
                       timeout |-> feed.timeout ]),
                 !.Rounds = Insert(@, << feed_id, new_round_id >>,
                     [ started_at |-> now, answer |-> None,
                       updated_at |-> None, answered_in_round |-> None ])])

\* The admin check of add_oracles that accepts every admin.
same_admin_any(meta, admin) == TRUE

\* The ensure! for OwnerCannotChangeAdmin.
same_admin(meta, admin) == meta.admin = admin

\* The enabled check of add_oracles that accepts every status.
not_enabled_any(maybe_status) == TRUE

\* The ensure! for AlreadyEnabled.
not_enabled(maybe_status) ==
    is_none(maybe_status) \/ is_some(unwrap(maybe_status).ending_round)

RECURSIVE add_oracles_loop(_, _, _, _)
add_oracles_loop(S, feed, feed_id, to_add) ==
    IF to_add = << >> THEN Ok(S)
    ELSE
      LET oracle == to_add[1][1]
          admin == to_add[1][2]
          maybe_meta == Get(S.Oracles, oracle)
          S1 == IF is_none(maybe_meta)
                THEN [S EXCEPT !.Oracles = Insert(@, oracle,
                        [ withdrawable |-> 0, admin |-> admin, pending_admin |-> None ])]
                ELSE S
          maybe_status == Get(S1.OracleStati, << feed_id, oracle >>)
      IN  IF is_some(maybe_meta) /\ ~same_admin(unwrap(maybe_meta), admin)
          THEN Err("OwnerCannotChangeAdmin", S)
          ELSE IF ~not_enabled(maybe_status)
          THEN Err("AlreadyEnabled", S1)
          ELSE add_oracles_loop(
                 [S1 EXCEPT !.OracleStati = Insert(@, << feed_id, oracle >>,
                     [ starting_round |-> feed.reporting_round,
                       ending_round |-> None,
                       last_reported_round |-> None,
                       last_started_round |-> None,
                       latest_submission |-> None ])],
                 feed, feed_id, Tail(to_add))

\* The limit check of add_oracles without the limit.
within_limit_any(new_count) == TRUE

\* The ensure! for OraclesLimitExceeded.
within_limit(new_count) == new_count <= OracleCountLimit

\* Returns [res, st, feed]: feed is the caller's FeedConfig after the call.
add_oracles(S, feed, feed_id, to_add) ==
    LET new_count == checked_add(feed.oracle_count, Len(to_add), CountMax)
    IN  IF is_none(new_count) THEN [res |-> "Overflow", st |-> S, feed |-> feed]
        ELSE IF ~within_limit(unwrap(new_count))
        THEN [res |-> "OraclesLimitExceeded", st |-> S, feed |-> feed]
        ELSE LET feed1 == [feed EXCEPT !.oracle_count = unwrap(new_count)]
                 r == add_oracles_loop(S, feed1, feed_id, to_add)
             IN  [res |-> r.res, st |-> r.st, feed |-> feed1]

(***************************************************************************)
(* Dispatchables.                                                          *)
(***************************************************************************)
create_feed(S, owner, payment_amount, timeout, submission_value_bounds, submission_count_bounds, decimals, description, restart_delay, oracles) ==
    IF ~(Len(description) <= StringLimit) THEN Err("DescriptionTooLong", S)
    ELSE with_transaction_result(S,
      LET id == S.FeedCounter
          new_id == checked_add(id, 1, IdMax)
      IN  IF is_none(new_id) THEN Err("Overflow", S)
          ELSE
            LET S1 == [S EXCEPT !.FeedCounter = unwrap(new_id)]
                new_feed == [ owner |-> owner, pending_owner |-> None,
                              payment_amount |-> payment_amount, timeout |-> timeout,
                              submission_value_bounds |-> submission_value_bounds,
                              submission_count_bounds |-> submission_count_bounds,
                              decimals |-> decimals, description |-> description,
                              restart_delay |-> restart_delay,
                              latest_round |-> 0, reporting_round |-> 0,
                              first_valid_round |-> None, oracle_count |-> 0 ]
                started_at == now
                S2 == [S1 EXCEPT !.Rounds = Insert(@, << id, 0 >>,
                          [ started_at |-> started_at, answer |-> Some(0),
                            updated_at |-> Some(started_at),
                            answered_in_round |-> Some(0) ])]
                added == add_oracles(S2, new_feed, id, oracles)
            IN  IF added.res # "Ok" THEN Err(added.res, added.st)
                ELSE Ok([added.st EXCEPT !.Feeds = Insert(@, id, added.feed)]))

\* The closure of submit that runs inside with_transaction_result.
submit_transaction(S, oracle, feed_id, round_id, submission, feed0, status0, new_round_id, eligible_to_start) ==
    LET opens == round_id = new_round_id /\ eligible_to_start
        feed1 == IF opens THEN [feed0 EXCEPT !.reporting_round = new_round_id] ELSE feed0
        opened == IF opens THEN initialize_round(S, feed_id, feed1, new_round_id) ELSE Ok(S)
        status1 == IF opens THEN [status0 EXCEPT !.last_started_round = Some(new_round_id)]
                   ELSE status0
        S1 == opened.st
        taken == Get(S1.Details, << feed_id, round_id >>)
    IN  IF opened.res # "Ok" THEN opened
        ELSE IF is_none(taken) THEN Err("NotAcceptingSubmissions", S1)
        ELSE
          LET details == [unwrap(taken) EXCEPT !.submissions = Append(@, submission)]
              status2 == [status1 EXCEPT !.last_reported_round = Some(round_id),
                                         !.latest_submission = Some(submission)]
              S2 == [S1 EXCEPT !.Details = Remove(@, << feed_id, round_id >>),
                               !.OracleStati = Insert(@, << feed_id, oracle >>, status2)]
              min_count == details.submission_count_bounds[1]
              max_count == details.submission_count_bounds[2]
              answers == Len(details.submissions) >= min_count
              round == Get(S2.Rounds, << feed_id, round_id >>)
          IN  IF answers /\ is_none(round) THEN Err("RoundNotFound", S2)
              ELSE
                LET new_answer == median(details.submissions)
                    S3 == IF answers
                          THEN [S2 EXCEPT !.Rounds = Insert(@, << feed_id, round_id >>,
                                  [unwrap(round) EXCEPT !.answer = Some(new_answer),
                                                        !.updated_at = Some(now),
                                                        !.answered_in_round = Some(round_id)])]
                          ELSE S2
                    feed2 == IF answers
                             THEN [feed1 EXCEPT !.latest_round = round_id,
                                     !.first_valid_round =
                                        IF is_none(@) THEN Some(round_id) ELSE @]
                             ELSE feed1
                    payment == details.payment_amount
                    paid == Currency_reserve(S3, Fund, payment)
                    S4 == paid.st
                    oracle_meta == Get(S4.Oracles, oracle)
                IN  IF paid.res # "Ok" THEN paid
                    ELSE IF is_none(oracle_meta) THEN Err("OracleNotFound", S4)
                    ELSE
                      LET withdrawable == checked_add(unwrap(oracle_meta).withdrawable,
                                                      payment, BalanceMax)
                      IN  IF is_none(withdrawable) THEN Err("Overflow", S4)
                          ELSE
                            LET S5 == [S4 EXCEPT
                                        !.Oracles = Insert(@, oracle,
                                           [unwrap(oracle_meta) EXCEPT
                                              !.withdrawable = unwrap(withdrawable)]),
                                        !.Feeds = Insert(@, feed_id, feed2)]
                                \* median has sorted details.submissions in place
                                sorted == IF answers
                                          THEN [details EXCEPT !.submissions = sort_unstable(@)]
                                          ELSE details
                            IN  IF Len(details.submissions) < max_count
                                THEN Ok([S5 EXCEPT !.Details =
                                           Insert(@, << feed_id, round_id >>, sorted)])
                                ELSE Ok(S5)

\* The eligibility to start a round that every oracle has.
can_start_any(round_id, next_eligible_round, last_started_round) == TRUE

\* eligible_to_start of submit
can_start(round_id, next_eligible_round, last_started_round) == round_id >= next_eligible_round \/ is_none(last_started_round)

submit(S, oracle, feed_id, round_id, submission) ==
    LET valid == ensure_round_valid_for(S, feed_id, oracle, round_id)
        maybe_feed == Get(S.Feeds, feed_id)
        feed == unwrap(maybe_feed)
        min_val == feed.submission_value_bounds[1]
        max_val == feed.submission_value_bounds[2]
        new_round_id == checked_add(feed.reporting_round, 1, IdMax)
        maybe_status == Get(S.OracleStati, << feed_id, oracle >>)
        oracle_status == unwrap(maybe_status)
        plus_delay == checked_add(unwrap_or(oracle_status.last_started_round, 0),
                                  feed.restart_delay, IdMax)
        next_eligible_round == checked_add(unwrap(plus_delay), 1, IdMax)
        eligible_to_start == can_start(round_id, unwrap(next_eligible_round),
                                       oracle_status.last_started_round)
    IN  IF valid # "Ok" THEN Err(valid, S)
        ELSE IF is_none(maybe_feed) THEN Err("FeedNotFound", S)
        ELSE IF ~(submission >= min_val) THEN Err("SubmissionBelowMinimum", S)
        ELSE IF ~(submission <= max_val) THEN Err("SubmissionAboveMaximum", S)
        ELSE IF is_none(new_round_id) THEN Err("Overflow", S)
        ELSE IF is_none(maybe_status) THEN Err("NotOracle", S)
        ELSE IF is_none(plus_delay) THEN Err("Overflow", S)
        ELSE IF is_none(next_eligible_round) THEN Err("Overflow", S)
        ELSE with_transaction_result(S,
               submit_transaction(S, oracle, feed_id, round_id, submission, feed,
                                  oracle_status, unwrap(new_round_id), eligible_to_start))


\* to_disable.sort(); to_disable.dedup();
RECURSIVE dedup(_)
dedup(s) ==
    IF Len(s) <= 1 THEN s
    ELSE IF s[1] = s[2] THEN dedup(Tail(s))
    ELSE << s[1] >> \o dedup(Tail(s))

sort_dedup(s) == dedup(SortSeq(s, LAMBDA a, b : a < b))

RECURSIVE disable_loop(_, _, _, _)
disable_loop(S, feed, feed_id, to_disable) ==
    IF to_disable = << >> THEN Ok(S)
    ELSE
      LET d == to_disable[1]
          status == Get(S.OracleStati, << feed_id, d >>)
      IN  IF is_none(status) THEN Err("OracleNotFound", S)
          ELSE IF ~is_none(unwrap(status).ending_round) THEN Err("OracleDisabled", S)
          ELSE disable_loop(
                 [S EXCEPT !.OracleStati = Insert(@, << feed_id, d >>,
                     [unwrap(status) EXCEPT !.ending_round = Some(feed.reporting_round)])],
                 feed, feed_id, Tail(to_disable))

change_oracles(S, sender, feed_id, to_disable_arg, to_add) ==
    LET maybe_feed == Get(S.Feeds, feed_id)
        feed == unwrap(maybe_feed)
        to_disable == sort_dedup(to_disable_arg)
    IN  IF is_none(maybe_feed) THEN Err("FeedNotFound", S)
        ELSE IF ~(feed.owner = sender) THEN Err("NotFeedOwner", S)
        ELSE with_transaction_result(S,
          LET disabled_count == Len(to_disable)
              feed1 == [feed EXCEPT !.oracle_count = saturating_sub(@, disabled_count)]
              disabled == disable_loop(S, feed1, feed_id, to_disable)
              added == add_oracles(disabled.st, feed1, feed_id, to_add)
          IN  IF disabled.res # "Ok" THEN disabled
              ELSE IF added.res # "Ok" THEN Err(added.res, added.st)
              ELSE Ok([added.st EXCEPT !.Feeds = Insert(@, feed_id, added.feed)]))

update_future_rounds(S, sender, feed_id, payment_amount, submission_count_bounds, restart_delay, timeout) ==
    LET min == submission_count_bounds[1]
        max == submission_count_bounds[2]
        maybe_feed == Get(S.Feeds, feed_id)
        feed == unwrap(maybe_feed)
    IN  IF ~(max >= min) THEN Err("WrongBounds", S)
        ELSE IF is_none(maybe_feed) THEN Err("FeedNotFound", S)
        ELSE IF ~(feed.owner = sender) THEN Err("NotFeedOwner", S)
        ELSE IF ~(feed.oracle_count >= max) THEN Err("MaxExceededTotal", S)
        ELSE IF ~(feed.oracle_count > restart_delay) THEN Err("DelayExceededTotal", S)
        ELSE Ok([S EXCEPT !.Feeds = Insert(@, feed_id,
                   [feed EXCEPT !.payment_amount = payment_amount,
                                !.submission_count_bounds = submission_count_bounds,
                                !.restart_delay = restart_delay,
                                !.timeout = timeout])])

withdraw_payment(S, admin, oracle, recipient, amount) ==
    LET maybe_meta == Get(S.Oracles, oracle)
        oracle_meta == unwrap(maybe_meta)
        withdrawable == checked_sub(oracle_meta.withdrawable, amount)
        sent == Currency_transfer(S, Fund, recipient, amount)
    IN  IF is_none(maybe_meta) THEN Err("OracleNotFound", S)
        ELSE IF ~(oracle_meta.admin = admin) THEN Err("NotAdmin", S)
        ELSE IF is_none(withdrawable) THEN Err("InsufficientFunds", S)
        ELSE IF sent.res # "Ok" THEN sent
        ELSE Ok([sent.st EXCEPT !.Oracles = Insert(@, oracle,
                   [oracle_meta EXCEPT !.withdrawable = unwrap(withdrawable)])])

transfer_admin(S, old_admin, oracle, new_admin) ==
    LET maybe_meta == Get(S.Oracles, oracle)
        oracle_meta == unwrap(maybe_meta)
    IN  IF is_none(maybe_meta) THEN Err("OracleNotFound", S)
        ELSE IF ~(oracle_meta.admin = old_admin) THEN Err("NotAdmin", S)
        ELSE Ok([S EXCEPT !.Oracles = Insert(@, oracle,
                   [oracle_meta EXCEPT !.pending_admin = Some(new_admin)])])

accept_admin(S, new_admin, oracle) ==
    LET maybe_meta == Get(S.Oracles, oracle)
        oracle_meta == unwrap(maybe_meta)
    IN  IF is_none(maybe_meta) THEN Err("OracleNotFound", S)
        ELSE IF ~(oracle_meta.pending_admin = Some(new_admin)) THEN Err("NotPendingAdmin", S)
        ELSE Ok([S EXCEPT !.Oracles = Insert(@, oracle,
                   [oracle_meta EXCEPT !.pending_admin = None, !.admin = new_admin])])

transfer_ownership(S, old_owner, feed_id, new_owner) ==
    LET maybe_feed == Get(S.Feeds, feed_id)
        feed == unwrap(maybe_feed)
    IN  IF is_none(maybe_feed) THEN Err("FeedNotFound", S)
        ELSE IF ~(feed.owner = old_owner) THEN Err("NotFeedOwner", S)
        ELSE Ok([S EXCEPT !.Feeds = Insert(@, feed_id,
                   [feed EXCEPT !.pending_owner = Some(new_owner)])])

\* The check of accept_ownership that lets every account accept a pending transfer.
is_pending_owner_any(feed, new_owner) == is_some(feed.pending_owner)

\* The ensure! for NotPendingOwner.
is_pending_owner(feed, new_owner) == feed.pending_owner = Some(new_owner)

accept_ownership(S, new_owner, feed_id) ==
    LET maybe_feed == Get(S.Feeds, feed_id)
        feed == unwrap(maybe_feed)
    IN  IF is_none(maybe_feed) THEN Err("FeedNotFound", S)
        ELSE IF ~is_pending_owner(feed, new_owner) THEN Err("NotPendingOwner", S)
        ELSE Ok([S EXCEPT !.Feeds = Insert(@, feed_id,
                   [feed EXCEPT !.pending_owner = None, !.owner = new_owner])])

transfer_pallet_admin(S, old_admin, new_pallet_admin) ==
    IF ~(S.PalletAdmin = old_admin) THEN Err("NotPalletAdmin", S)
    ELSE Ok([S EXCEPT !.PendingPalletAdmin = Some(new_pallet_admin)])

accept_pallet_admin(S, new_pallet_admin) ==
    IF ~(S.PendingPalletAdmin = Some(new_pallet_admin)) THEN Err("NotPendingPalletAdmin", S)
    ELSE Ok([S EXCEPT !.PendingPalletAdmin = None, !.PalletAdmin = new_pallet_admin])

\* The reserve check of withdraw_funds that accepts every remainder.
reserve_kept_any(new_reserve) == TRUE

\* The ensure! for InsufficientReserve.
reserve_kept(new_reserve) == new_reserve >= MinimumReserve

withdraw_funds(S, sender, recipient, amount) ==
    LET fund == Fund
        reserve == S.free[fund]
        new_reserve == checked_sub(reserve, amount)
    IN  IF ~(sender = S.PalletAdmin) THEN Err("NotPalletAdmin", S)
        ELSE IF is_none(new_reserve) THEN Err("InsufficientFunds", S)
        ELSE IF ~reserve_kept(unwrap(new_reserve)) THEN Err("InsufficientReserve", S)
        ELSE Currency_transfer(S, fund, recipient, amount)

\* The delay check of request_new_round with >= in place of >.
request_allowed_at(last_started_round, new_round, next_allowed_round) == is_none(last_started_round) \/ new_round >= next_allowed_round

\* The ensure! for CannotRequestRoundYet.
request_allowed(last_started_round, new_round, next_allowed_round) == is_none(last_started_round) \/ new_round > next_allowed_round

request_new_round(S, sender, feed_id) ==
    LET maybe_requester == Get(S.Requesters, << feed_id, sender >>)
        requester == unwrap(maybe_requester)
        maybe_feed == Get(S.Feeds, feed_id)
        feed == unwrap(maybe_feed)
        round == Get(S.Rounds, << feed_id, feed.reporting_round >>)
        is_first_round_or_updated ==
            IF feed.reporting_round = 0 THEN TRUE ELSE is_some(unwrap(round).updated_at)
        new_round == checked_add(feed.reporting_round, 1, IdMax)
        last_started == unwrap_or(requester.last_started_round, 0)
        next_allowed_round == checked_add(last_started, requester.delay, IdMax)
    IN  IF is_none(maybe_requester) THEN Err("NotAuthorizedRequester", S)
        ELSE IF is_none(maybe_feed) THEN Err("FeedNotFound", S)
        ELSE IF feed.reporting_round # 0 /\ is_none(round) THEN Err("RoundNotFound", S)
        ELSE IF ~(is_first_round_or_updated \/ timed_out(S, feed_id, feed.reporting_round))
        THEN Err("RoundNotSupersedable", S)
        ELSE IF is_none(new_round) THEN Err("Overflow", S)
        ELSE IF is_none(next_allowed_round) THEN Err("Overflow", S)
        ELSE IF ~request_allowed(requester.last_started_round, unwrap(new_round), unwrap(next_allowed_round))
        THEN Err("CannotRequestRoundYet", S)
        ELSE with_transaction_result(S,
          LET opened == initialize_round(S, feed_id, feed, unwrap(new_round))
          IN  IF opened.res # "Ok" THEN opened
              ELSE Ok([opened.st EXCEPT !.Requesters = Insert(@, << feed_id, sender >>,
                         [requester EXCEPT !.last_started_round = Some(unwrap(new_round))])]))

\* set_requester that writes a fresh record whether or not one is stored.
set_requester_fresh(S, owner, feed_id, requester, delay) ==
    LET maybe_feed == Get(S.Feeds, feed_id)
        feed == unwrap(maybe_feed)
    IN  IF is_none(maybe_feed) THEN Err("FeedNotFound", S)
        ELSE IF ~(feed.owner = owner) THEN Err("NotFeedOwner", S)
        ELSE Ok([S EXCEPT !.Requesters = Insert(@, << feed_id, requester >>,
                   [delay |-> delay, last_started_round |-> None])])

set_requester(S, owner, feed_id, requester, delay) ==
    LET maybe_feed == Get(S.Feeds, feed_id)
        feed == unwrap(maybe_feed)
        requester_meta == unwrap_or(Get(S.Requesters, << feed_id, requester >>),
                                    [delay |-> 0, last_started_round |-> None])
    IN  IF is_none(maybe_feed) THEN Err("FeedNotFound", S)
        ELSE IF ~(feed.owner = owner) THEN Err("NotFeedOwner", S)
        ELSE Ok([S EXCEPT !.Requesters = Insert(@, << feed_id, requester >>,
                   [requester_meta EXCEPT !.delay = delay])])

remove_requester(S, owner, feed_id, requester) ==
    LET maybe_feed == Get(S.Feeds, feed_id)
        feed == unwrap(maybe_feed)
    IN  IF is_none(maybe_feed) THEN Err("FeedNotFound", S)
        ELSE IF ~(feed.owner = owner) THEN Err("NotFeedOwner", S)
        ELSE IF is_none(Get(S.Requesters, << feed_id, requester >>))
        THEN Err("RequesterNotFound", S)
        ELSE Ok([S EXCEPT !.Requesters = Remove(@, << feed_id, requester >>)])

\* The loop of prune with round <= keep_round as its condition.
RECURSIVE prune_loop_inclusive(_, _, _, _)
prune_loop_inclusive(S, feed_id, round, keep_round) ==
    IF ~(round <= keep_round) THEN S
    ELSE prune_loop_inclusive([S EXCEPT !.Rounds = Remove(@, << feed_id, round >>),
                                        !.Details = Remove(@, << feed_id, round >>)],
                              feed_id, round + 1, keep_round)

RECURSIVE prune_loop(_, _, _, _)
prune_loop(S, feed_id, round, keep_round) ==
    IF ~(round < keep_round) THEN S
    ELSE prune_loop([S EXCEPT !.Rounds = Remove(@, << feed_id, round >>),
                              !.Details = Remove(@, << feed_id, round >>)],
                    feed_id, round + 1, keep_round)

\* The guard of prune without the check of first_to_prune.
prune_bounds_keep_only(first_to_prune, keep_round) == keep_round > first_to_prune

\* The two ensure!s that guard round zero.
prune_bounds(first_to_prune, keep_round) == first_to_prune > 0 /\ keep_round > first_to_prune

\* The window check of prune with >= in place of >.
beyond_window_or_at(latest_round, first_to_prune) == saturating_sub(latest_round, first_to_prune) >= PruningWindow

\* The ensure! for NothingToPrune.
beyond_window(latest_round, first_to_prune) == saturating_sub(latest_round, first_to_prune) > PruningWindow

prune(S, owner, feed_id, first_to_prune, keep_round_arg) ==
    LET maybe_feed == Get(S.Feeds, feed_id)
        feed == unwrap(maybe_feed)
    IN  IF ~prune_bounds(first_to_prune, keep_round_arg) THEN Err("CannotPruneRoundZero", S)
        ELSE IF is_none(maybe_feed) THEN Err("FeedNotFound", S)
        ELSE IF ~(feed.owner = owner) THEN Err("NotFeedOwner", S)
        ELSE IF is_none(feed.first_valid_round) THEN Err("NothingToPrune", S)
        ELSE
          LET first_valid_round == unwrap(feed.first_valid_round)
              pruning_window == PruningWindow
              keep_round == Min(saturating_sub(feed.latest_round, pruning_window),
                                keep_round_arg)
              S1 == prune_loop(S, feed_id, first_to_prune, keep_round)
          IN  IF ~beyond_window(feed.latest_round, first_to_prune)
              THEN Err("NothingToPrune", S)
              ELSE Ok([S1 EXCEPT !.Feeds = Insert(@, feed_id,
                         [feed EXCEPT !.first_valid_round =
                            Some(Max(keep_round, first_valid_round))])])

\* impl FeedOracle for Module<T>
FeedOracle_request_new_round(S, feed_id) ==
    LET maybe_feed == Get(S.Feeds, feed_id)
        feed == unwrap(maybe_feed)
        round == Get(S.Rounds, << feed_id, feed.reporting_round >>)
        is_first_round_or_updated ==
            IF feed.reporting_round = 0 THEN TRUE ELSE is_some(unwrap(round).updated_at)
        new_round == checked_add(feed.reporting_round, 1, IdMax)
    IN  IF is_none(maybe_feed) THEN Err("FeedNotFound", S)
        ELSE IF feed.reporting_round # 0 /\ is_none(round) THEN Err("RoundNotFound", S)
        ELSE IF is_none(new_round) THEN Err("Overflow", S)
        ELSE IF ~(is_first_round_or_updated \/ timed_out(S, feed_id, feed.reporting_round))
        THEN Err("RoundNotSupersedable", S)
        ELSE with_transaction_result(S,
               initialize_round(S, feed_id, feed, unwrap(new_round)))

\* impl TryFrom<Round> for RoundData: None stands for Err(MissingField)
RoundData_try_from(r) ==
    IF is_none(r.answered_in_round) \/ is_none(r.answer) \/ is_none(r.updated_at) THEN None
    ELSE Some([ started_at |-> r.started_at,
                answer |-> unwrap(r.answer),
                updated_at |-> unwrap(r.updated_at),
                answered_in_round |-> unwrap(r.answered_in_round) ])

RoundData_default == [ started_at |-> 0, answer |-> 0, updated_at |-> 0, answered_in_round |-> 0 ]

\* impl FeedInterface for Feed<T>, on the configuration as stored
Feed_data_at(S, feed_id, round) ==
    LET r == Get(S.Rounds, << feed_id, round >>)
    IN  IF is_none(r) THEN None ELSE RoundData_try_from(unwrap(r))

Feed_latest_data(S, feed_id) ==
    unwrap_or(Feed_data_at(S, feed_id, S.Feeds[feed_id].latest_round), RoundData_default)


(***************************************************************************)
(* The state machine.  Init is the genesis storage; every action is one   *)
(* call of a dispatchable (or of the FeedOracle trait) with its arguments  *)
(* drawn from the sets below, or the passing of a block.  A call that      *)
(* returns an error leaves the storage its handler returns, as any other.  *)
(***************************************************************************)
Owner == 1
Admin == 4
OracleAccounts == {2, 3}
RoundIds == 0 .. MaxRound
Values == {1, 3}
ValueBounds == << 1, 3 >>
\* value bounds in the upper half of the value type, and values around them
UpperBounds == << 4, 6 >>
UpperValues == {3, 4, 5}
Callers == {Owner, 2}
\* << payment_amount, submission_count_bounds, restart_delay, timeout >>
QuorumConfig == << 1, << 2, 2 >>, 0, 1 >>
SingleConfig == << 1, << 1, 1 >>, 1, 0 >>
RoundConfigs == { QuorumConfig, SingleConfig }
\* a round that stays open after its answer: one submission answers, three close
OpenConfig == << 1, << 1, 3 >>, 0, 0 >>
\* a later configuration that pays twice as much per submission
PaidConfig == << 2, << 1, 2 >>, 0, 1 >>
Descriptions == { << >>, << 100, 101, 115 >> }
OracleLists == { << << 2, Admin >>, << 3, Admin >> >>, << << 2, Admin >>, << 2, Admin >> >> }
\* << to_disable, to_add >>
OracleChanges == { << << 2, 2 >>, << >> >>,
                   << << >>, << << 2, Admin >> >> >>,
                   << << 2 >>, << << 2, Admin >> >> >>,
                   << << 2 >>, << << 3, Admin >> >> >>,
                   << << >>, << << 2, Owner >> >> >> }
Reenable == { << << 2 >>, << << 2, Admin >> >> >>, << << 2 >>, << << 3, Admin >> >> >> }

Init ==
    /\ now = 0
    /\ PalletAdmin = Fund
    /\ PendingPalletAdmin = None
    /\ FeedCounter = 0
    /\ Feeds = EmptyMap
    /\ Rounds = EmptyMap
    /\ Details = EmptyMap
    /\ Oracles = EmptyMap
    /\ OracleStati = EmptyMap
    /\ Requesters = EmptyMap
    /\ free = [a \in Accounts |-> IF a = Fund THEN InitialFunds ELSE 0]
    /\ reserved = [a \in Accounts |-> 0]
    /\ accepted = EmptyMap
    /\ reported = EmptyMap
    /\ maxed = {}
    /\ slice = << >>
    /\ median_of = None

\* The storage after a call that returned r.
Commit(r) ==
    /\ PalletAdmin' = r.st.PalletAdmin
    /\ PendingPalletAdmin' = r.st.PendingPalletAdmin
    /\ FeedCounter' = r.st.FeedCounter
    /\ Feeds' = r.st.Feeds
    /\ Rounds' = r.st.Rounds
    /\ Details' = r.st.Details
    /\ Oracles' = r.st.Oracles
    /\ OracleStati' = r.st.OracleStati
    /\ Requesters' = r.st.Requesters
    /\ free' = r.st.free
    /\ reserved' = r.st.reserved
    /\ UNCHANGED << slice, median_of >>

\* A call leaves the storage its handler returns; the block number stays.
Call(r) ==
    /\ Commit(r)
    /\ UNCHANGED now

reporting_round_of(f) == IF f \in DOMAIN Feeds THEN Feeds[f].reporting_round ELSE 0

Tick ==
    /\ now < MaxBlock
    /\ now' = now + 1
    /\ UNCHANGED << PalletAdmin, PendingPalletAdmin, FeedCounter, Feeds, Rounds, Details,
                    Oracles, OracleStati, Requesters, free, reserved, accepted, reported, maxed,
                    slice, median_of >>

CreateFeed(configs) ==
    /\ FeedCounter < MaxFeeds
    /\ \E c \in configs, d \in Descriptions, o \in OracleLists :
          Call(create_feed(St, Owner, c[1], c[4], ValueBounds, c[2], 0, d, c[3], o))
    /\ UNCHANGED << accepted, reported, maxed >>

\* create_feed with submission_value_bounds of its own
CreateFeedOver(configs, bounds) ==
    /\ FeedCounter < MaxFeeds
    /\ \E c \in configs, o \in OracleLists :
          Call(create_feed(St, Owner, c[1], c[4], bounds, c[2], 0, << >>, c[3], o))
    /\ UNCHANGED << accepted, reported, maxed >>

Submit(values) ==
    \E o \in OracleAccounts, f \in DOMAIN Feeds, r \in RoundIds, v \in values :
       LET res == submit(St, o, f, r, v)
           k == << f, r >>
           a == << f, o >>
       IN  /\ Call(res)
           /\ accepted' = IF res.res = "Ok"
                          THEN Insert(accepted, k, Append(unwrap_or(Get(accepted, k), << >>), v))
                          ELSE accepted
           /\ reported' = IF res.res = "Ok"
                          THEN Insert(reported, a, unwrap_or(Get(reported, a), {}) \cup {r})
                          ELSE reported
           /\ maxed' = IF res.res = "Ok" /\ k \notin DOMAIN res.st.Details
                       THEN maxed \cup {k} ELSE maxed

ChangeOracles(changes) ==
    /\ \E s \in Callers, f \in DOMAIN Feeds, c \in changes :
          Call(change_oracles(St, s, f, c[1], c[2]))
    /\ UNCHANGED << accepted, reported, maxed >>

UpdateFutureRounds(configs) ==
    /\ \E s \in Callers, f \in DOMAIN Feeds, c \in configs :
          Call(update_future_rounds(St, s, f, c[1], c[2], c[3], c[4]))
    /\ UNCHANGED << accepted, reported, maxed >>

WithdrawPayment ==
    /\ \E a \in {Admin, Owner}, o \in OracleAccounts :
          Call(withdraw_payment(St, a, o, Admin, 1))
    /\ UNCHANGED << accepted, reported, maxed >>

TransferAdmin ==
    /\ \E a \in {Admin, Owner}, o \in OracleAccounts, n \in {Admin, Owner} :
          Call(transfer_admin(St, a, o, n))
    /\ UNCHANGED << accepted, reported, maxed >>

AcceptAdmin ==
    /\ \E a \in {Admin, Owner}, o \in OracleAccounts :
          Call(accept_admin(St, a, o))
    /\ UNCHANGED << accepted, reported, maxed >>

Holders == {Fund, Owner, 2}

TransferOwnership ==
    /\ \E a \in Holders, f \in DOMAIN Feeds, n \in Holders :
          Call(transfer_ownership(St, a, f, n))
    /\ UNCHANGED << accepted, reported, maxed >>

AcceptOwnership ==
    /\ \E a \in Holders, f \in DOMAIN Feeds :
          Call(accept_ownership(St, a, f))
    /\ UNCHANGED << accepted, reported, maxed >>

TransferPalletAdmin ==
    /\ \E a \in Holders, n \in Holders :
          Call(transfer_pallet_admin(St, a, n))
    /\ UNCHANGED << accepted, reported, maxed >>

AcceptPalletAdmin ==
    /\ \E a \in Holders :
          Call(accept_pallet_admin(St, a))
    /\ UNCHANGED << accepted, reported, maxed >>

WithdrawFunds ==
    /\ \E s \in {Fund, Owner} :
          Call(withdraw_funds(St, s, Admin, 2))
    /\ UNCHANGED << accepted, reported, maxed >>

RequestNewRound ==
    /\ \E s \in Callers, f \in DOMAIN Feeds :
          /\ reporting_round_of(f) < MaxRound
          /\ Call(request_new_round(St, s, f))
    /\ UNCHANGED << accepted, reported, maxed >>

FeedOracleRequestNewRound ==
    /\ \E f \in DOMAIN Feeds :
          /\ reporting_round_of(f) < MaxRound
          /\ Call(FeedOracle_request_new_round(St, f))
    /\ UNCHANGED << accepted, reported, maxed >>

SetRequester(delays) ==
    /\ \E s \in Callers, f \in DOMAIN Feeds, d \in delays :
          Call(set_requester(St, s, f, Owner, d))
    /\ UNCHANGED << accepted, reported, maxed >>

RemoveRequester ==
    /\ \E s \in Callers, f \in DOMAIN Feeds :
          Call(remove_requester(St, s, f, Owner))
    /\ UNCHANGED << accepted, reported, maxed >>

Prune ==
    /\ \E s \in Callers, f \in DOMAIN Feeds, first \in {0, 1}, keep \in RoundIds :
          Call(prune(St, s, f, first, keep))
    /\ UNCHANGED << accepted, reported, maxed >>

\* Every operation, with one submission value.
Next ==
    \/ Tick
    \/ CreateFeed({SingleConfig})
    \/ Submit({1})
    \/ ChangeOracles(Reenable)
    \/ UpdateFutureRounds({QuorumConfig})
    \/ WithdrawPayment
    \/ WithdrawFunds
    \/ RequestNewRound
    \/ FeedOracleRequestNewRound
    \/ SetRequester({0})
    \/ RemoveRequester
    \/ Prune

Spec == Init /\ [][Next]_vars

\* The round lifecycle: feeds of both configurations, two submission values.
NextRounds ==
    \/ Tick
    \/ CreateFeed(RoundConfigs)
    \/ Submit(Values)
    \/ RequestNewRound
    \/ FeedOracleRequestNewRound
    \/ SetRequester({0, 1})
    \/ Prune

SpecRounds == Init /\ [][NextRounds]_vars

\* The round lifecycle under changes of the oracle set.
NextOracles ==
    \/ Tick
    \/ CreateFeed(RoundConfigs)
    \/ Submit(Values)
    \/ ChangeOracles(OracleChanges)
    \/ FeedOracleRequestNewRound

SpecOracles == Init /\ [][NextOracles]_vars

\* The oracle registry with the transfer of an oracle's admin.
NextAdmin ==
    \/ CreateFeed({SingleConfig})
    \/ Submit({1})
    \/ ChangeOracles(OracleChanges)
    \/ TransferAdmin
    \/ AcceptAdmin
    \/ WithdrawPayment

SpecAdmin == Init /\ [][NextAdmin]_vars

\* Rounds opened under one configuration and paid after the owner changed it.
NextPayments ==
    \/ CreateFeed(RoundConfigs)
    \/ Submit(Values)
    \/ UpdateFutureRounds({PaidConfig})
    \/ FeedOracleRequestNewRound
    \/ WithdrawPayment

SpecPayments == Init /\ [][NextPayments]_vars

\* Pruning of rounds opened under configurations the owner switches between.
NextPrune ==
    \/ CreateFeed({SingleConfig})
    \/ Submit({1})
    \/ UpdateFutureRounds(RoundConfigs)
    \/ Prune

SpecPrune == Init /\ [][NextPrune]_vars

\* The owner of a feed and the pallet admin, with operations only they may call.
NextOwnership ==
    \/ CreateFeed({SingleConfig})
    \/ TransferOwnership
    \/ AcceptOwnership
    \/ TransferPalletAdmin
    \/ AcceptPalletAdmin
    \/ UpdateFutureRounds({QuorumConfig})
    \/ SetRequester({0})
    \/ WithdrawFunds

SpecOwnership == Init /\ [][NextOwnership]_vars

\* The requesters of a feed whose owner changes.
NextRequesters ==
    \/ CreateFeed({SingleConfig})
    \/ Submit({1})
    \/ TransferOwnership
    \/ AcceptOwnership
    \/ SetRequester({0, 1})
    \/ RemoveRequester
    \/ RequestNewRound

SpecRequesters == Init /\ [][NextRequesters]_vars

\* Submissions to a feed whose value bounds lie in the upper half of the value type.
NextValues ==
    \/ CreateFeedOver({QuorumConfig, OpenConfig}, UpperBounds)
    \/ Submit(UpperValues)

SpecValues == Init /\ [][NextValues]_vars

\* A feed with a timeout and a requester without delay: every block ends, and
\* the requester calls request_new_round again and again.
NextRequests ==
    \/ Tick
    \/ CreateFeed({QuorumConfig})
    \/ Submit({1})
    \/ SetRequester({0})
    \/ RequestNewRound

SpecRequests == Init /\ [][NextRequests]_vars /\ WF_vars(Tick) /\ WF_vars(RequestNewRound)

\* Submissions to rounds that stay open after their first answer.
NextSubmissions ==
    \/ CreateFeed({OpenConfig})
    \/ Submit(Values)

SpecSubmissions == Init /\ [][NextSubmissions]_vars

(***************************************************************************)
(* median on its own: every slice of 1 .. MaxLen values of the value type, *)
(* and one call of median on it, which sorts the slice in place.           *)
(***************************************************************************)
RECURSIVE Slices(_)
Slices(n) == IF n = 0 THEN {} ELSE [1 .. n -> 0 .. ValueMax] \cup Slices(n - 1)

InitMedian ==
    /\ now = 0
    /\ PalletAdmin = Fund
    /\ PendingPalletAdmin = None
    /\ FeedCounter = 0
    /\ Feeds = EmptyMap
    /\ Rounds = EmptyMap
    /\ Details = EmptyMap
    /\ Oracles = EmptyMap
    /\ OracleStati = EmptyMap
    /\ Requesters = EmptyMap
    /\ free = [a \in Accounts |-> IF a = Fund THEN InitialFunds ELSE 0]
    /\ reserved = [a \in Accounts |-> 0]
    /\ accepted = EmptyMap
    /\ reported = EmptyMap
    /\ maxed = {}
    /\ slice \in Slices(MaxLen)
    /\ median_of = None

Median ==
    /\ median_of = None
    /\ median_of' = Some([of |-> slice, is |-> median(slice)])
    /\ slice' = sort_unstable(slice)
    /\ UNCHANGED << now, PalletAdmin, PendingPalletAdmin, FeedCounter, Feeds, Rounds, Details,
                    Oracles, OracleStati, Requesters, free, reserved, accepted, reported, maxed >>

SpecMedian == InitMedian /\ [][Median]_vars


(***************************************************************************)
(* Properties.  A property of "every call" is stated over the result of    *)
(* the handler for every argument of the sets below, in every reachable    *)
(* state.                                                                  *)
(***************************************************************************)
ArgCallers == {Fund, Owner, 2, 3, Admin}
ArgRounds == 0 .. MaxRound + 1
ArgValues == {0, 1, 3, 4}

answer_of(S, f, r) == IF << f, r >> \in DOMAIN S.Rounds THEN S.Rounds[<< f, r >>].answer ELSE None
has_answer(S, f, r) == is_some(answer_of(S, f, r))

\* The reporting round can be superseded: it has an answer or is timed out.
Supersedable(f) ==
    has_answer(St, f, Feeds[f].reporting_round) \/ timed_out(St, f, Feeds[f].reporting_round)

\* A submit by o for round r of feed f is one that opens the round: r is the
\* round after the reporting round, o passes the checks of the registry and
\* o never started a round or r >= last_started_round + restart_delay + 1.
OpeningSubmit(o, f, r) ==
    /\ r = Feeds[f].reporting_round + 1
    /\ ensure_round_valid_for(St, f, o, r) = "Ok"
    /\ LET status == OracleStati[<< f, o >>]
       IN  \/ is_none(status.last_started_round)
           \/ r >= unwrap(status.last_started_round) + Feeds[f].restart_delay + 1

InRange(f, v) == Feeds[f].submission_value_bounds[1] <= v /\ v <= Feeds[f].submission_value_bounds[2]

\* C1: a round is opened only if the reporting round has an answer or is timed
\* out; otherwise the opening operation (a submit that opens the round, the
\* request_new_round extrinsic of a requester, FeedOracle::request_new_round)
\* fails with RoundNotSupersedable and creates no Round or RoundDetails record.
C1_OpenOnlyIfSupersedable ==
    \A f \in DOMAIN Feeds :
       ~Supersedable(f) =>
          /\ \A o \in ArgCallers, v \in ArgValues :
                (OpeningSubmit(o, f, Feeds[f].reporting_round + 1) /\ InRange(f, v)) =>
                   LET res == submit(St, o, f, Feeds[f].reporting_round + 1, v)
                   IN  /\ res.res = "RoundNotSupersedable"
                       /\ res.st.Rounds = Rounds
                       /\ res.st.Details = Details
          /\ \A s \in ArgCallers :
                << f, s >> \in DOMAIN Requesters =>
                   LET res == request_new_round(St, s, f)
                   IN  /\ res.res = "RoundNotSupersedable"
                       /\ res.st.Rounds = Rounds
                       /\ res.st.Details = Details
          /\ LET res == FeedOracle_request_new_round(St, f)
             IN  /\ res.res = "RoundNotSupersedable"
                 /\ res.st.Rounds = Rounds
                 /\ res.st.Details = Details

\* The timed out round n of feed f is closed in storage S as C2 states:
\* answer and answered_in_round of round n - 1 (as stored before the call),
\* updated_at the current block, no details.
ClosedWithPredecessor(S, f, n) ==
    /\ << f, n >> \in DOMAIN S.Rounds
    /\ S.Rounds[<< f, n >>].answer = Rounds[<< f, n - 1 >>].answer
    /\ S.Rounds[<< f, n >>].answered_in_round = Rounds[<< f, n - 1 >>].answered_in_round
    /\ S.Rounds[<< f, n >>].updated_at = Some(now)
    /\ << f, n >> \notin DOMAIN S.Details

\* C2: when the reporting round N is pending and timed out and round N + 1 is
\* opened, the stored Round record of N takes the answer and answered_in_round
\* of round N - 1, updated_at is the current block and the details of N are gone.
C2_TimedOutRoundInheritsAnswer ==
    \A f \in DOMAIN Feeds :
       LET n == Feeds[f].reporting_round
       IN  (n >= 1 /\ << f, n >> \in DOMAIN Rounds /\ << f, n - 1 >> \in DOMAIN Rounds
              /\ ~has_answer(St, f, n) /\ timed_out(St, f, n)) =>
             /\ \A o \in ArgCallers, v \in ArgValues :
                   LET res == submit(St, o, f, n + 1, v)
                   IN  (OpeningSubmit(o, f, n + 1) /\ res.res = "Ok") =>
                          ClosedWithPredecessor(res.st, f, n)
             /\ \A s \in ArgCallers :
                   LET res == request_new_round(St, s, f)
                   IN  res.res = "Ok" => ClosedWithPredecessor(res.st, f, n)
             /\ LET res == FeedOracle_request_new_round(St, f)
                IN  res.res = "Ok" => ClosedWithPredecessor(res.st, f, n)

\* C3: the rounds of an account's accepted submissions on a feed increase
\* strictly, also across a disable and re-add by change_oracles: a submit for
\* a round not above every round the account has an accepted submission for
\* fails, and it fails with ReportingOrder when the account is enabled for the
\* round and its status records a reported round at or above it.
C3_ReportingOrder ==
    \A k \in DOMAIN reported : \A r \in ArgRounds, v \in ArgValues :
       (\E r2 \in reported[k] : r2 >= r) =>
          LET res == submit(St, k[2], k[1], r, v)
              status == OracleStati[k]
          IN  /\ res.res # "Ok"
              /\ (/\ status.starting_round <= r
                  /\ (is_none(status.ending_round) \/ unwrap(status.ending_round) >= r)
                  /\ is_some(status.last_reported_round)
                  /\ unwrap(status.last_reported_round) >= r)
                    => res.res = "ReportingOrder"

\* C4: once the accepted submissions of a round reached the maximum count of
\* its details, the details are absent and every submit for the round fails,
\* with NotAcceptingSubmissions when it passes the checks before.
C4_ClosedRoundStaysClosed ==
    \A k \in maxed :
       /\ k \notin DOMAIN Details
       /\ \A o \in ArgCallers, v \in ArgValues :
             LET res == submit(St, o, k[1], k[2], v)
             IN  /\ res.res # "Ok"
                 /\ (ensure_round_valid_for(St, k[1], o, k[2]) = "Ok" /\ InRange(k[1], v))
                       => res.res = "NotAcceptingSubmissions"

\* The values accepted for round r of feed f so far, in order of acceptance.
accepted_for(f, r) == IF << f, r >> \in DOMAIN accepted THEN accepted[<< f, r >>] ELSE << >>

\* The minimum count that a submit by o for round r of feed f is held to: the
\* one of the details of r, which an opening submit takes from the feed.
snapshot_min(o, f, r) ==
    IF OpeningSubmit(o, f, r) \/ << f, r >> \notin DOMAIN Details
    THEN Feeds[f].submission_count_bounds[1]
    ELSE Details[<< f, r >>].submission_count_bounds[1]

\* C5: after a successful submit for round r: with at least the minimum count
\* of submissions accumulated in r, Round r holds the median of all the
\* submissions accepted for r so far, updated_at the current block and
\* answered_in_round r, latest_round is r and first_valid_round is r if it was
\* unset; below the minimum, answer, latest_round and first_valid_round are
\* unchanged.
C5_AnswerIsMedianOfAccepted ==
    \A f \in DOMAIN Feeds : \A o \in ArgCallers, r \in ArgRounds, v \in ArgValues :
       LET res == submit(St, o, f, r, v)
           all == Append(accepted_for(f, r), v)
           feed == res.st.Feeds[f]
       IN  res.res = "Ok" =>
              IF Len(all) >= snapshot_min(o, f, r)
              THEN /\ << f, r >> \in DOMAIN res.st.Rounds
                   /\ res.st.Rounds[<< f, r >>].answer = Some(median(all))
                   /\ res.st.Rounds[<< f, r >>].updated_at = Some(now)
                   /\ res.st.Rounds[<< f, r >>].answered_in_round = Some(r)
                   /\ feed.latest_round = r
                   /\ feed.first_valid_round = IF is_none(Feeds[f].first_valid_round) THEN Some(r) ELSE Feeds[f].first_valid_round
              ELSE /\ answer_of(res.st, f, r) = answer_of(St, f, r)
                   /\ feed.latest_round = Feeds[f].latest_round
                   /\ feed.first_valid_round = Feeds[f].first_valid_round

\* Arguments of the calls of C6.
ArgFeeds == DOMAIN Feeds \cup {FeedCounter}
ArgLists == {<< >>, << 2 >>, << 3 >>, << 2, 3 >>}
ArgAdds == {<< >>, << << 2, Admin >> >>, << << 3, Admin >> >>, << << 3, Admin >>, << 3, Admin >> >>}
ArgAmounts == {1, 2, BalanceMax}

Unchanged(res) == res.res # "Ok" => res.st = St

\* C6: a failing call of submit, request_new_round, change_oracles,
\* create_feed, prune, withdraw_payment or withdraw_funds leaves the whole
\* persisted state as it was: Feeds, Rounds, Details, Oracles, OracleStati,
\* Requesters, FeedCounter and the balances.
C6_FailedCallChangesNothing ==
    /\ \A f \in ArgFeeds, o \in {Owner, 2, 3}, r \in ArgRounds, v \in {0, 1} :
          Unchanged(submit(St, o, f, r, v))
    /\ \A f \in ArgFeeds, s \in {Owner, 2} :
          Unchanged(request_new_round(St, s, f))
    /\ \A f \in ArgFeeds, s \in {Owner, 2}, d \in ArgLists, a \in ArgAdds :
          Unchanged(change_oracles(St, s, f, d, a))
    /\ \A s \in {Fund, Owner}, c \in RoundConfigs, d \in Descriptions, l \in OracleLists :
          Unchanged(create_feed(St, s, c[1], c[4], ValueBounds, c[2], 0, d, c[3], l))
    /\ \A f \in ArgFeeds, s \in {Owner, 2}, first \in {0, 1, 2}, keep \in ArgRounds :
          Unchanged(prune(St, s, f, first, keep))
    /\ \A a \in {Admin, 2}, o \in {2, 3}, amount \in ArgAmounts :
          Unchanged(withdraw_payment(St, a, o, Owner, amount))
    /\ \A s \in {Fund, Owner}, rcp \in {Owner}, amount \in ArgAmounts :
          Unchanged(withdraw_funds(St, s, rcp, amount))

\* C6 witness: the fund is empty and a submit that opens the next round fails
\* when the payment is reserved, after the round has been opened in the
\* transaction; and a change_oracles fails on its additions after it has
\* disabled an oracle.
C6_Witness ==
    \E f \in DOMAIN Feeds :
       /\ \E o \in {2, 3} :
             /\ OpeningSubmit(o, f, Feeds[f].reporting_round + 1)
             /\ submit(St, o, f, Feeds[f].reporting_round + 1, 1).res = "InsufficientBalance"
       /\ change_oracles(St, Owner, f, << 2 >>, << << 3, Admin >> >>).res = "AlreadyEnabled"

\* C7: a successful request_new_round of a feed whose reporting round is N
\* leaves Round N + 1 started at the current block without an answer, details
\* of N + 1 without submissions, the reporting round N + 1 and the requester's
\* last_started_round N + 1; a second request opens another round.
C7_RequestAdvancesReportingRound ==
    \A f \in DOMAIN Feeds : \A s \in ArgCallers :
       LET res == request_new_round(St, s, f)
           n == Feeds[f].reporting_round
       IN  res.res = "Ok" =>
              /\ << f, n + 1 >> \in DOMAIN res.st.Rounds
              /\ res.st.Rounds[<< f, n + 1 >>].started_at = now
              /\ is_none(res.st.Rounds[<< f, n + 1 >>].answer)
              /\ << f, n + 1 >> \in DOMAIN res.st.Details
              /\ res.st.Details[<< f, n + 1 >>].submissions = << >>
              /\ res.st.Feeds[f].reporting_round = n + 1
              /\ res.st.Requesters[<< f, s >>].last_started_round = Some(n + 1)

\* The operations of C8 leave round zero of feed f as it is.
KeepsRoundZero(f, res) ==
    /\ << f, 0 >> \in DOMAIN res.st.Rounds
    /\ res.st.Rounds[<< f, 0 >>] = Rounds[<< f, 0 >>]

\* C8: round 0 of every feed exists with answer 0 and answered_in_round 0; no
\* submit, opening of a round, closure of a timed out round or prune changes
\* or removes it; prune with first_to_prune = 0 or keep_round <= first_to_prune
\* fails with CannotPruneRoundZero.
C8_RoundZeroIsPermanent ==
    /\ \A f \in DOMAIN Feeds :
          /\ << f, 0 >> \in DOMAIN Rounds
          /\ Rounds[<< f, 0 >>].answer = Some(0)
          /\ Rounds[<< f, 0 >>].answered_in_round = Some(0)
          /\ \A o \in {2, 3}, r \in ArgRounds, v \in {1, 3} : KeepsRoundZero(f, submit(St, o, f, r, v))
          /\ \A s \in {Owner, 2} : KeepsRoundZero(f, request_new_round(St, s, f))
          /\ KeepsRoundZero(f, FeedOracle_request_new_round(St, f))
          /\ \A s \in {Owner, 2}, first \in ArgRounds, keep \in ArgRounds :
                KeepsRoundZero(f, prune(St, s, f, first, keep))
    /\ \A f \in ArgFeeds, s \in {Owner, 2}, first \in ArgRounds, keep \in ArgRounds :
          (first = 0 \/ keep <= first) => prune(St, s, f, first, keep).res = "CannotPruneRoundZero"

\* C8 witness: round 1 of a feed had an answer and was pruned, rounds were
\* opened past it, and round 0 is in storage.
C8_Witness ==
    \E f \in DOMAIN Feeds :
       /\ << f, 1 >> \in DOMAIN accepted
       /\ << f, 1 >> \notin DOMAIN Rounds
       /\ Feeds[f].reporting_round >= 2
       /\ << f, 0 >> \in DOMAIN Rounds

\* C9: latest_round of a feed never exceeds its reporting_round.
C9_LatestNotAboveReporting ==
    \A f \in DOMAIN Feeds : Feeds[f].latest_round <= Feeds[f].reporting_round

\* The state of round r of feed f does not move backwards from the current
\* storage to S: an answer stays, and removed details stay removed.
Forward(S, f, r) ==
    /\ has_answer(St, f, r) => has_answer(S, f, r)
    /\ (<< f, r >> \in DOMAIN Rounds /\ << f, r >> \notin DOMAIN Details) => << f, r >> \notin DOMAIN S.Details

\* C10: under submit and request_new_round the state of a round r >= 1 only
\* moves forward: an answer once set is never absent again, and details once
\* removed are never created again.
C10_RoundStateMovesForward ==
    \A f \in DOMAIN Feeds : \A r \in 1 .. MaxRound + 1 :
       /\ \A o \in ArgCallers, r2 \in ArgRounds, v \in ArgValues : Forward(submit(St, o, f, r2, v).st, f, r)
       /\ \A s \in ArgCallers : Forward(request_new_round(St, s, f).st, f, r)
       /\ Forward(FeedOracle_request_new_round(St, f).st, f, r)

\* The k-th smallest element of the slice s, by counting: fewer than k
\* elements are below it and at least k elements are at or below it.
Kth(s, k) ==
    CHOOSE v \in {s[i] : i \in DOMAIN s} :
       /\ Cardinality({i \in DOMAIN s : s[i] < v}) < k
       /\ k <= Cardinality({i \in DOMAIN s : s[i] <= v})

\* The reference median: the middle element in ascending order for an odd
\* length, floor(min(a + b, MAX) / 2) of the two middle elements otherwise.
ReferenceMedian(s) ==
    IF Len(s) % 2 = 1
    THEN Kth(s, (Len(s) + 1) \div 2)
    ELSE LET a == Kth(s, Len(s) \div 2)
             b == Kth(s, Len(s) \div 2 + 1)
         IN  (IF a + b > ValueMax THEN ValueMax ELSE a + b) \div 2

\* C11: for every non-empty slice median returns the reference median.
C11_MedianIsReference ==
    is_some(median_of) => unwrap(median_of).is = ReferenceMedian(unwrap(median_of).of)

\* C11 witness: median has returned for a slice of even length that is not
\* in ascending order and whose two middle elements add up to more than the
\* maximum of the value type.
C11_Witness ==
    /\ is_some(median_of)
    /\ Len(unwrap(median_of).of) = 2
    /\ unwrap(median_of).of[1] > unwrap(median_of).of[2]
    /\ unwrap(median_of).of[1] + unwrap(median_of).of[2] > ValueMax
    /\ unwrap(median_of).is = ValueMax \div 2

\* C12: the result of median lies between the least and the greatest element
\* of the slice, also when two elements add up to more than the maximum of
\* the value type.
C12_MedianWithinRange ==
    is_some(median_of) =>
       /\ \E i \in DOMAIN unwrap(median_of).of : unwrap(median_of).of[i] <= unwrap(median_of).is
       /\ \E i \in DOMAIN unwrap(median_of).of : unwrap(median_of).is <= unwrap(median_of).of[i]

\* The result res of prune(f, first, keep) removes the rounds of f with ids in
\* first .. hi - 1 and leaves every other Round and RoundDetails as it is.
RemovesExactly(res, f, first, hi) ==
    \A k \in DOMAIN Rounds \cup DOMAIN Details \cup DOMAIN res.st.Rounds \cup DOMAIN res.st.Details :
       IF k[1] = f /\ first <= k[2] /\ k[2] < hi
       THEN k \notin DOMAIN res.st.Rounds /\ k \notin DOMAIN res.st.Details
       ELSE Get(res.st.Rounds, k) = Get(Rounds, k) /\ Get(res.st.Details, k) = Get(Details, k)

\* C13: a successful prune(feed, first, keep) removes the Round and
\* RoundDetails of exactly the rounds in [first, min(keep, latest_round -
\* PruningWindow)) and leaves every other round record unchanged.
C13_PruneRemovesExactlyTheRange ==
    \A f \in DOMAIN Feeds : \A s \in {Owner, 2}, first \in ArgRounds, keep \in ArgRounds :
       LET res == prune(St, s, f, first, keep)
           hi == Min(keep, Feeds[f].latest_round - PruningWindow)
       IN  res.res = "Ok" => RemovesExactly(res, f, first, hi)

\* C13 witness: a prune succeeds whose keep_round is clamped by the window,
\* with a stored round to remove and stored rounds to keep.
C13_Witness ==
    \E f \in DOMAIN Feeds : \E first \in ArgRounds, keep \in ArgRounds :
       /\ prune(St, Owner, f, first, keep).res = "Ok"
       /\ keep > Feeds[f].latest_round - PruningWindow
       /\ << f, first >> \in DOMAIN Rounds
       /\ << f, Feeds[f].latest_round - PruningWindow >> \in DOMAIN Rounds

\* The calls of prune that C14 is about: a feed with a first_valid_round,
\* first > 0, keep > first, by the owner.
PruneCalls == {c \in (DOMAIN Feeds) \X ArgRounds \X ArgRounds : is_some(Feeds[c[1]].first_valid_round) /\ c[2] > 0 /\ c[3] > c[2]}

\* C14 as stated: prune returns Ok whenever latest_round - first >=
\* PruningWindow and fails with NothingToPrune exactly when latest_round -
\* first < PruningWindow.
C14_PruneProceedsAtWindow ==
    \A c \in PruneCalls :
       LET res == prune(St, Feeds[c[1]].owner, c[1], c[2], c[3])
           distance == Feeds[c[1]].latest_round - c[2]
       IN  /\ distance >= PruningWindow => res.res = "Ok"
           /\ res.res = "NothingToPrune" <=> distance < PruningWindow

\* C14 amended: prune returns Ok whenever latest_round - first >
\* PruningWindow and fails with NothingToPrune exactly when latest_round -
\* first <= PruningWindow.
C14_PruneProceedsBeyondWindow ==
    \A c \in PruneCalls :
       LET res == prune(St, Feeds[c[1]].owner, c[1], c[2], c[3])
           distance == Feeds[c[1]].latest_round - c[2]
       IN  /\ distance > PruningWindow => res.res = "Ok"
           /\ res.res = "NothingToPrune" <=> distance <= PruningWindow

\* C14 witness: a feed whose latest round is far enough for both cases: prune
\* from latest_round - PruningWindow finds nothing to prune, prune from the
\* round before succeeds.
C14_Witness ==
    \E f \in DOMAIN Feeds :
       /\ is_some(Feeds[f].first_valid_round)
       /\ Feeds[f].latest_round - PruningWindow - 1 > 0
       /\ prune(St, Owner, f, Feeds[f].latest_round - PruningWindow, Feeds[f].latest_round).res = "NothingToPrune"
       /\ prune(St, Owner, f, Feeds[f].latest_round - PruningWindow - 1, Feeds[f].latest_round).res = "Ok"

\* The requesters of C15: the <<feed, account>>s with a Requester record
\* that has started a round.
StartedRequesters == {k \in DOMAIN Requesters : k[1] \in DOMAIN Feeds /\ is_some(Requesters[k].last_started_round)}

\* C15: for a requester with delay d and last_started_round L, a request for
\* the candidate round c = reporting_round + 1 fails when c <= L + d, with
\* CannotRequestRoundYet when the reporting round is supersedable; when
\* c > L + d and the reporting round is supersedable the request succeeds and
\* opens round c.  So a round the requester opens is more than d above the
\* round it opened before.
C15_RequesterDelay ==
    \A k \in StartedRequesters :
       LET res == request_new_round(St, k[2], k[1])
           c == Feeds[k[1]].reporting_round + 1
           bound == unwrap(Requesters[k].last_started_round) + Requesters[k].delay
       IN  /\ c <= bound =>
                /\ res.res # "Ok"
                /\ Supersedable(k[1]) => res.res = "CannotRequestRoundYet"
           /\ (c > bound /\ Supersedable(k[1])) =>
                /\ res.res = "Ok"
                /\ << k[1], c >> \in DOMAIN res.st.Rounds
                /\ res.st.Rounds[<< k[1], c >>].started_at = now
                /\ << k[1], c >> \in DOMAIN res.st.Details
                /\ res.st.Details[<< k[1], c >>].submissions = << >>
                /\ res.st.Requesters[k].last_started_round = Some(c)

\* C15 witness: a requester with a delay above 0 that has started a round
\* may request again: the next round is beyond its delay.
C15_Witness ==
    \E k \in StartedRequesters :
       /\ Requesters[k].delay > 0
       /\ request_new_round(St, k[2], k[1]).res = "Ok"

\* Arguments of change_oracles and create_feed for C16 and C17.
DisableArgs == {<< >>, << 2 >>, << 3 >>, << 2, 2 >>, << 3, 2 >>, << 3, 2, 3 >>}
AddArgs == {<< >>, << << 2, Admin >> >>, << << 3, Admin >> >>, << << 1, Admin >> >>, << << 2, Admin >>, << 3, Admin >> >>, << << 1, Admin >>, << 2, Admin >>, << 3, Admin >> >>}

Distinct(s) == Cardinality({s[i] : i \in DOMAIN s})

\* C16: after a successful change_oracles the oracle_count of the feed is the
\* count before, minus the number of distinct accounts of to_disable, plus
\* the number of entries of to_add.
C16_OracleCountArithmetic ==
    \A f \in DOMAIN Feeds : \A d \in DisableArgs, a \in AddArgs :
       LET res == change_oracles(St, Feeds[f].owner, f, d, a)
       IN  res.res = "Ok" =>
              res.st.Feeds[f].oracle_count = Feeds[f].oracle_count - Distinct(d) + Len(a)

\* C16 witness: oracle 2 was disabled, and a change_oracles that names oracle
\* 3 twice in to_disable and adds oracle 2 again succeeds.
C16_Witness ==
    \E f \in DOMAIN Feeds :
       /\ Feeds[f].oracle_count = 1
       /\ change_oracles(St, Owner, f, << 3, 3 >>, << << 2, Admin >> >>).res = "Ok"

\* Every account of to_disable is an enabled oracle of feed f.
AllEnabled(f, d) ==
    \A i \in DOMAIN d :
       << f, d[i] >> \in DOMAIN OracleStati /\ is_none(OracleStati[<< f, d[i] >>].ending_round)

\* C17: the oracle_count of every feed is at most OracleCountLimit; a
\* create_feed or change_oracles whose additions would raise the count above
\* the limit fails, with OraclesLimitExceeded when the checks before the
\* additions pass.
C17_OracleCountLimit ==
    /\ \A f \in DOMAIN Feeds : Feeds[f].oracle_count <= OracleCountLimit
    /\ \A a \in AddArgs, c \in RoundConfigs :
          Len(a) > OracleCountLimit =>
             create_feed(St, Owner, c[1], c[4], ValueBounds, c[2], 0, << >>, c[3], a).res = "OraclesLimitExceeded"
    /\ \A f \in DOMAIN Feeds : \A d \in DisableArgs, a \in AddArgs :
          LET res == change_oracles(St, Feeds[f].owner, f, d, a)
          IN  Feeds[f].oracle_count - Distinct(d) + Len(a) > OracleCountLimit =>
                 /\ res.res # "Ok"
                 /\ AllEnabled(f, d) => res.res = "OraclesLimitExceeded"

\* C17 witness: a feed has as many oracles as the limit allows, and adding
\* one more is refused while replacing one is accepted.
C17_Witness ==
    \E f \in DOMAIN Feeds :
       /\ Feeds[f].oracle_count = OracleCountLimit
       /\ change_oracles(St, Owner, f, << >>, << << 1, Admin >> >>).res = "OraclesLimitExceeded"
       /\ change_oracles(St, Owner, f, << 2 >>, << << 1, Admin >> >>).res = "Ok"

\* The call that returned res leaves admin and pending_admin of oracle o.
KeepsAdmin(o, res) ==
    /\ o \in DOMAIN res.st.Oracles
    /\ res.st.Oracles[o].admin = Oracles[o].admin
    /\ res.st.Oracles[o].pending_admin = Oracles[o].pending_admin

\* The accounts other than the admin of oracle o.
OtherAdmins(o) == {a \in {Owner, 2, Admin} : a # Oracles[o].admin}

\* C18: the admin of an oracle with an OracleMeta changes only by
\* accept_admin of the account stored as pending_admin, which only
\* transfer_admin by the current admin sets; create_feed and change_oracles
\* that add the oracle with another admin fail, with OwnerCannotChangeAdmin
\* when the checks before pass, and change nothing.
C18_AdminOnlyByHandshake ==
    \A o \in DOMAIN Oracles :
       /\ \A a \in ArgCallers :
             LET res == accept_admin(St, a, o)
             IN  IF Oracles[o].pending_admin = Some(a)
                 THEN res.res = "Ok" /\ res.st.Oracles[o].admin = a
                 ELSE res.res = "NotPendingAdmin" /\ res.st = St
       /\ \A a \in ArgCallers, n \in {Owner, 2, Admin} :
             LET res == transfer_admin(St, a, o, n)
             IN  IF a = Oracles[o].admin
                 THEN /\ res.res = "Ok"
                      /\ res.st.Oracles[o].admin = Oracles[o].admin
                      /\ res.st.Oracles[o].pending_admin = Some(n)
                 ELSE res.res = "NotAdmin" /\ res.st = St
       /\ \A a \in OtherAdmins(o) :
             /\ LET res == create_feed(St, Owner, 1, 0, ValueBounds, << 1, 1 >>, 0, << >>, 0, << << o, a >> >>)
                IN  res.res = "OwnerCannotChangeAdmin" /\ res.st = St
             /\ \A f \in DOMAIN Feeds : \A d \in {<< >>, << o >>} :
                   LET res == change_oracles(St, Feeds[f].owner, f, d, << << o, a >> >>)
                   IN  /\ res.res # "Ok"
                       /\ res.st = St
                       /\ (AllEnabled(f, d) /\ Feeds[f].oracle_count - Len(d) + 1 <= OracleCountLimit)
                             => res.res = "OwnerCannotChangeAdmin"
       /\ \A f \in DOMAIN Feeds :
             /\ \A d \in DisableArgs, a \in AddArgs : KeepsAdmin(o, change_oracles(St, Feeds[f].owner, f, d, a))
             /\ \A c \in OracleAccounts, r \in ArgRounds : KeepsAdmin(o, submit(St, c, f, r, 1))
             /\ \A c \in {Owner, 2} : KeepsAdmin(o, request_new_round(St, c, f))
             /\ \A first \in {1, 2}, keep \in ArgRounds : KeepsAdmin(o, prune(St, Feeds[f].owner, f, first, keep))
       /\ \A a \in AddArgs : KeepsAdmin(o, create_feed(St, Owner, 1, 0, ValueBounds, << 1, 1 >>, 0, << >>, 0, a))
       /\ \A a \in ArgCallers, c \in DOMAIN Oracles : KeepsAdmin(o, withdraw_payment(St, a, c, Owner, 1))
       /\ \A a \in ArgCallers : KeepsAdmin(o, withdraw_funds(St, a, Owner, 1))

\* C18 witness: the admin of an oracle of a feed has been handed over to the
\* owner, and a change_oracles that adds the oracle again with its first admin
\* is refused.
C18_Witness ==
    \E f \in DOMAIN Feeds : \E o \in OracleAccounts :
       /\ << f, o >> \in DOMAIN OracleStati
       /\ Oracles[o].admin = Owner
       /\ Oracles[o].pending_admin = None
       /\ change_oracles(St, Owner, f, << o >>, << << o, Admin >> >>).res = "OwnerCannotChangeAdmin"

(***************************************************************************)
(* The snapshot of the configuration in the RoundDetails.                  *)
(***************************************************************************)
SnapshotOf(d) == << d.submission_count_bounds, d.payment_amount, d.timeout >>
ConfigOf(feed) == << feed.submission_count_bounds, feed.payment_amount, feed.timeout >>

\* Every RoundDetails that is there before and after the call has the same snapshot.
KeepsSnapshots(res) ==
    \A k \in DOMAIN Details \cap DOMAIN res.st.Details :
       SnapshotOf(res.st.Details[k]) = SnapshotOf(Details[k])

\* A RoundDetails the call creates holds the configuration the feed has before the call.
TakesSnapshot(res) ==
    \A k \in DOMAIN res.st.Details \ DOMAIN Details :
       SnapshotOf(res.st.Details[k]) = ConfigOf(Feeds[k[1]])

ArgConfigs == RoundConfigs \cup {PaidConfig}

\* C19: from the opening of a round until its RoundDetails is removed, the
\* submission_count_bounds, payment_amount and timeout of the RoundDetails
\* are the feed's configuration at the opening: a RoundDetails a call creates
\* takes them from the feed, and no call of update_future_rounds, submit or
\* request_new_round changes them in a RoundDetails that stays.
C19_DetailsKeepSnapshot ==
    \A f \in DOMAIN Feeds :
       /\ \A s \in ArgCallers, c \in ArgConfigs :
             LET res == update_future_rounds(St, s, f, c[1], c[2], c[3], c[4])
             IN  KeepsSnapshots(res) /\ TakesSnapshot(res)
       /\ \A o \in ArgCallers, r \in ArgRounds, v \in Values :
             LET res == submit(St, o, f, r, v)
             IN  KeepsSnapshots(res) /\ TakesSnapshot(res)
       /\ \A s \in ArgCallers :
             LET res == request_new_round(St, s, f)
             IN  KeepsSnapshots(res) /\ TakesSnapshot(res)
       /\ LET res == FeedOracle_request_new_round(St, f)
          IN  KeepsSnapshots(res) /\ TakesSnapshot(res)

\* The submit pays p to the oracle: the withdrawable of the oracle grows by
\* p, p moves from the free to the reserved balance of the fund, and no other
\* oracle and no other account is paid.
Pays(res, o, p) ==
    /\ free[Fund] >= p
    /\ res.st.Oracles[o].withdrawable = Oracles[o].withdrawable + p
    /\ res.st.reserved[Fund] = reserved[Fund] + p
    /\ res.st.free[Fund] = free[Fund] - p
    /\ \A c \in DOMAIN Oracles \ {o} :
          c \in DOMAIN res.st.Oracles /\ res.st.Oracles[c].withdrawable = Oracles[c].withdrawable
    /\ \A a \in Accounts \ {Fund} :
          res.st.free[a] = free[a] /\ res.st.reserved[a] = reserved[a]

\* C20: a successful submit of oracle o to round r pays o the payment_amount
\* of the RoundDetails of r (the feed's payment_amount when the submit opens
\* r, the snapshot of the open round otherwise): the withdrawable of o grows
\* by it, the fund reserves it, no other oracle is paid.  A submit the fund
\* cannot pay fails, and a failed submit records nothing.
C20_SubmitPaysSnapshot ==
    \A f \in DOMAIN Feeds : \A o \in ArgCallers, r \in ArgRounds, v \in Values :
       LET res == submit(St, o, f, r, v)
           k == << f, r >>
       IN  IF res.res = "Ok"
           THEN /\ o \in DOMAIN Oracles
                /\ << f, o >> \in DOMAIN OracleStati
                /\ IF OpeningSubmit(o, f, r)
                   THEN Pays(res, o, Feeds[f].payment_amount)
                   ELSE k \in DOMAIN Details /\ Pays(res, o, Details[k].payment_amount)
                /\ k \in DOMAIN res.st.Details
                      => Pays(res, o, res.st.Details[k].payment_amount)
           ELSE res.st = St

\* C20 witness: a round is open with a snapshot of the payment_amount that is
\* not the payment_amount of the feed any more, and an oracle submits to it
\* and is paid.
C20_Witness ==
    \E f \in DOMAIN Feeds : \E o \in OracleAccounts, r \in RoundIds :
       /\ << f, r >> \in DOMAIN Details
       /\ << f, o >> \in DOMAIN OracleStati
       /\ ~OpeningSubmit(o, f, r)
       /\ Details[<< f, r >>].payment_amount # Feeds[f].payment_amount
       /\ submit(St, o, f, r, 1).res = "Ok"

(***************************************************************************)
(* The window of rounds of an oracle.                                      *)
(***************************************************************************)
ending_round_of(S, f, o) ==
    IF << f, o >> \in DOMAIN S.OracleStati THEN S.OracleStati[<< f, o >>].ending_round ELSE None

Added(a) == {a[i][1] : i \in DOMAIN a}
Listed(d) == {d[i] : i \in DOMAIN d}

\* The call leaves the ending_round of every disabled oracle of feed f as it is.
KeepsDisabled(f, res) ==
    \A o \in ArgCallers :
       is_some(ending_round_of(St, f, o)) => ending_round_of(res.st, f, o) = ending_round_of(St, f, o)

\* C21: a submit of account a for round r fails with NotOracle when a has no
\* OracleStatus on the feed, with OracleNotEnabled when r is below the
\* starting_round, and with OracleDisabled when the ending_round is set and
\* below r, so a submit is accepted only inside the window.  A successful
\* change_oracles sets the ending_round of every oracle it disables to the
\* reporting round of the feed, and the ending_round of a disabled oracle
\* changes only when a change_oracles adds the oracle again.
C21_SubmitOnlyInsideWindow ==
    /\ \A f \in ArgFeeds, a \in ArgCallers, r \in ArgRounds, v \in Values :
          LET res == submit(St, a, f, r, v)
              k == << f, a >>
          IN  IF k \notin DOMAIN OracleStati THEN res.res = "NotOracle" /\ res.st = St
              ELSE IF OracleStati[k].starting_round > r
                   THEN res.res = "OracleNotEnabled" /\ res.st = St
              ELSE IF is_some(OracleStati[k].ending_round) /\ unwrap(OracleStati[k].ending_round) < r
                   THEN res.res = "OracleDisabled" /\ res.st = St
              ELSE TRUE
    /\ \A f \in DOMAIN Feeds :
          /\ \A d \in DisableArgs, a \in AddArgs :
                LET res == change_oracles(St, Feeds[f].owner, f, d, a)
                IN  res.res = "Ok" =>
                       \A o \in ArgCallers :
                          /\ o \in Listed(d) \ Added(a) =>
                                ending_round_of(res.st, f, o) = Some(Feeds[f].reporting_round)
                          /\ (o \notin Added(a) /\ is_some(ending_round_of(St, f, o))) =>
                                ending_round_of(res.st, f, o) = ending_round_of(St, f, o)
          /\ \A o \in ArgCallers, r \in ArgRounds, v \in Values : KeepsDisabled(f, submit(St, o, f, r, v))
          /\ \A s \in ArgCallers : KeepsDisabled(f, request_new_round(St, s, f))
          /\ KeepsDisabled(f, FeedOracle_request_new_round(St, f))
          /\ \A c \in ArgConfigs :
                KeepsDisabled(f, update_future_rounds(St, Feeds[f].owner, f, c[1], c[2], c[3], c[4]))
          /\ \A first \in ArgRounds, keep \in ArgRounds :
                KeepsDisabled(f, prune(St, Feeds[f].owner, f, first, keep))

\* C21 witness: an oracle was disabled, the reporting round has moved past its
\* ending_round, and its submit for the reporting round is refused, while the
\* other checks of the window would let it pass.
C21_Witness ==
    \E f \in DOMAIN Feeds : \E o \in OracleAccounts :
       /\ is_some(ending_round_of(St, f, o))
       /\ unwrap(ending_round_of(St, f, o)) < Feeds[f].reporting_round
       /\ ensure_round_valid_for_ended(St, f, o, Feeds[f].reporting_round) = "Ok"
       /\ submit(St, o, f, Feeds[f].reporting_round, 1).res = "OracleDisabled"

\* C22: for every feed the Round record of latest_round is stored and has
\* its answer, updated_at and answered_in_round, so that data_at returns it
\* and latest_data does not fall back to the default record.
C22_LatestRoundIsFinalized ==
    \A f \in DOMAIN Feeds :
       /\ << f, Feeds[f].latest_round >> \in DOMAIN Rounds
       /\ is_some(Feed_data_at(St, f, Feeds[f].latest_round))
       /\ Feed_latest_data(St, f) = unwrap(Feed_data_at(St, f, Feeds[f].latest_round))

\* C23: when first_valid_round of a feed is Some(r), the Round record r is
\* stored with an answer and no stored round from 1 to r - 1 has an answer;
\* when it is None, no round after round 0 has an answer.
C23_FirstValidRoundIsFirstAnswered ==
    \A f \in DOMAIN Feeds :
       LET first_valid_round == Feeds[f].first_valid_round
       IN  IF is_some(first_valid_round)
           THEN /\ has_answer(St, f, unwrap(first_valid_round))
                /\ \A r \in 1 .. unwrap(first_valid_round) - 1 : ~has_answer(St, f, r)
           ELSE \A r \in 1 .. MaxRound + 1 : ~has_answer(St, f, r)

ArgCountBounds == {<< 1, 1 >>, << 1, 2 >>, << 2, 2 >>, << 2, 1 >>, << 0, 0 >>}

\* Every feed and every RoundDetails of the storage S has min <= max.
BoundsOrdered(S) ==
    /\ \A f \in DOMAIN S.Feeds :
          S.Feeds[f].submission_count_bounds[1] <= S.Feeds[f].submission_count_bounds[2]
    /\ \A k \in DOMAIN S.Details :
          S.Details[k].submission_count_bounds[1] <= S.Details[k].submission_count_bounds[2]

\* C24: the submission_count_bounds (min, max) of every feed and of every
\* RoundDetails satisfy min <= max, in every reachable state and after every
\* create_feed and update_future_rounds, whatever their arguments.
C24_CountBoundsOrdered ==
    /\ BoundsOrdered(St)
    /\ \A b \in ArgCountBounds, a \in OracleLists :
          BoundsOrdered(create_feed(St, Owner, 1, 0, ValueBounds, b, 0, << >>, 0, a).st)
    /\ \A f \in DOMAIN Feeds : \A b \in ArgCountBounds :
          BoundsOrdered(update_future_rounds(St, Feeds[f].owner, f, 1, b, 0, 0).st)

\* C25: the submissions of the RoundDetails of every open round are the
\* values of the accepted submissions to the round in the order of their
\* arrival, before and after the answer of the round is computed.
C25_SubmissionsInArrivalOrder ==
    \A k \in DOMAIN Details :
       Details[k].submissions = unwrap_or(Get(accepted, k), << >>)

\* C26: timed_out(feed, round) is true exactly when the round is stored, was
\* started after block 0, has a RoundDetails with a positive timeout, and
\* now > started_at + timeout; it is false for every round with timeout 0,
\* for every round with started_at 0 and for every round not in storage.
C26_TimedOutExactly ==
    \A f \in ArgFeeds, r \in ArgRounds :
       LET k == << f, r >>
       IN  /\ timed_out(St, f, r) <=>
                 /\ k \in DOMAIN Rounds
                 /\ Rounds[k].started_at > 0
                 /\ k \in DOMAIN Details
                 /\ Details[k].timeout > 0
                 /\ now > Rounds[k].started_at + Details[k].timeout
           /\ k \notin DOMAIN Rounds => ~timed_out(St, f, r)
           /\ (k \in DOMAIN Rounds /\ Rounds[k].started_at = 0) => ~timed_out(St, f, r)
           /\ (k \in DOMAIN Details /\ Details[k].timeout = 0) => ~timed_out(St, f, r)

\* C26 witness: a round started after block 0 is timed out.
C26_Witness ==
    \E f \in DOMAIN Feeds : \E r \in RoundIds :
       /\ timed_out(St, f, r)
       /\ Rounds[<< f, r >>].started_at > 0

(***************************************************************************)
(* The owner of a feed and the pallet admin.                               *)
(***************************************************************************)
\* The call leaves the owner and the pending owner of feed f as they are.
KeepsOwner(f, res) ==
    /\ f \in DOMAIN res.st.Feeds
    /\ res.st.Feeds[f].owner = Feeds[f].owner
    /\ res.st.Feeds[f].pending_owner = Feeds[f].pending_owner

\* The call leaves the pallet admin and the pending pallet admin as they are.
KeepsPalletAdmin(res) ==
    /\ res.st.PalletAdmin = PalletAdmin
    /\ res.st.PendingPalletAdmin = PendingPalletAdmin

KeepsHolders(res) == KeepsPalletAdmin(res) /\ \A f \in DOMAIN Feeds : KeepsOwner(f, res)

\* C27: the owner of a feed changes only by accept_ownership called by the
\* pending owner, which leaves the pending owner empty; the pending owner is
\* set only by transfer_ownership called by the owner; accept_ownership by
\* any other account returns NotPendingOwner and changes nothing.  The same
\* holds of the pallet admin with transfer_pallet_admin and
\* accept_pallet_admin (NotPendingPalletAdmin).  No other call changes the
\* holder or the pending field.
C27_HolderOnlyByHandshake ==
    /\ \A f \in DOMAIN Feeds : \A a \in ArgCallers :
          /\ LET res == accept_ownership(St, a, f)
             IN  IF Feeds[f].pending_owner = Some(a)
                 THEN /\ res.res = "Ok"
                      /\ res.st = [St EXCEPT !.Feeds[f].owner = a, !.Feeds[f].pending_owner = None]
                 ELSE res.res = "NotPendingOwner" /\ res.st = St
          /\ \A n \in ArgCallers :
                LET res == transfer_ownership(St, a, f, n)
                IN  IF Feeds[f].owner = a
                    THEN /\ res.res = "Ok"
                         /\ res.st = [St EXCEPT !.Feeds[f].pending_owner = Some(n)]
                    ELSE res.res = "NotFeedOwner" /\ res.st = St
    /\ \A a \in ArgCallers :
          /\ LET res == accept_pallet_admin(St, a)
             IN  IF PendingPalletAdmin = Some(a)
                 THEN /\ res.res = "Ok"
                      /\ res.st = [St EXCEPT !.PalletAdmin = a, !.PendingPalletAdmin = None]
                 ELSE res.res = "NotPendingPalletAdmin" /\ res.st = St
          /\ \A n \in ArgCallers :
                LET res == transfer_pallet_admin(St, a, n)
                IN  IF PalletAdmin = a
                    THEN /\ res.res = "Ok"
                         /\ res.st = [St EXCEPT !.PendingPalletAdmin = Some(n)]
                    ELSE res.res = "NotPalletAdmin" /\ res.st = St
    /\ \A a \in ArgCallers :
          /\ \A f \in DOMAIN Feeds :
                /\ \A n \in ArgCallers :
                      /\ KeepsPalletAdmin(transfer_ownership(St, a, f, n))
                      /\ KeepsHolders(set_requester(St, a, f, n, 0))
                      /\ KeepsHolders(remove_requester(St, a, f, n))
                /\ KeepsPalletAdmin(accept_ownership(St, a, f))
                /\ \A c \in ArgConfigs : KeepsHolders(update_future_rounds(St, a, f, c[1], c[2], c[3], c[4]))
                /\ \A d \in DisableArgs, o \in AddArgs : KeepsHolders(change_oracles(St, a, f, d, o))
                /\ \A r \in ArgRounds : KeepsHolders(submit(St, a, f, r, 1))
                /\ KeepsHolders(request_new_round(St, a, f))
                /\ \A first \in ArgRounds, keep \in ArgRounds : KeepsHolders(prune(St, a, f, first, keep))
          /\ \A n \in ArgCallers :
                /\ \A f \in DOMAIN Feeds : KeepsOwner(f, transfer_pallet_admin(St, a, n))
                /\ \A m \in ArgAmounts : KeepsHolders(withdraw_funds(St, a, n, m))
                /\ \A o \in DOMAIN Oracles, m \in ArgAmounts : KeepsHolders(withdraw_payment(St, a, o, n, m))
          /\ \A f \in DOMAIN Feeds : KeepsOwner(f, accept_pallet_admin(St, a))
          /\ \A o \in AddArgs : KeepsHolders(create_feed(St, a, 1, 0, ValueBounds, << 1, 1 >>, 0, << >>, 0, o))

\* C27 witness: a transfer of the feed and a transfer of the pallet admin
\* are pending, each to an account that is not the holder, so that the
\* accept of the pending account succeeds and the accept of the holder fails.
C27_Witness ==
    /\ is_some(PendingPalletAdmin)
    /\ unwrap(PendingPalletAdmin) # PalletAdmin
    /\ PalletAdmin # Fund
    /\ accept_pallet_admin(St, PalletAdmin).res = "NotPendingPalletAdmin"
    /\ \E f \in DOMAIN Feeds :
          /\ is_some(Feeds[f].pending_owner)
          /\ unwrap(Feeds[f].pending_owner) # Feeds[f].owner
          /\ Feeds[f].owner # Owner
          /\ accept_ownership(St, Feeds[f].owner, f).res = "NotPendingOwner"
          /\ accept_ownership(St, unwrap(Feeds[f].pending_owner), f).res = "Ok"

(***************************************************************************)
(* Withdrawals.                                                            *)
(***************************************************************************)
ArgWithdrawals == {0, 1, 2, 3, BalanceMax}

\* The storage S after amount went from the free balance of the fund to the recipient.
Transferred(S, recipient, amount) ==
    IF recipient = Fund THEN S
    ELSE [S EXCEPT !.free[Fund] = @ - amount, !.free[recipient] = @ + amount]

\* C28: withdraw_payment(oracle, recipient, amount) succeeds only when the
\* caller is the stored admin of the oracle and amount is at most the
\* withdrawable of the oracle; a successful call lowers the withdrawable by
\* amount, moves amount from the fund to the recipient and changes nothing
\* else; a call with amount above the withdrawable fails, with
\* InsufficientFunds when the caller is the admin, and changes nothing.
C28_WithdrawPayment ==
    \A a \in ArgCallers, o \in ArgCallers, n \in ArgCallers, amount \in ArgWithdrawals :
       LET res == withdraw_payment(St, a, o, n, amount)
       IN  /\ res.res = "Ok" =>
                 /\ o \in DOMAIN Oracles
                 /\ Oracles[o].admin = a
                 /\ amount <= Oracles[o].withdrawable
                 /\ res.st = [Transferred(St, n, amount) EXCEPT
                                !.Oracles[o].withdrawable = Oracles[o].withdrawable - amount]
           /\ res.res # "Ok" => res.st = St
           /\ (o \in DOMAIN Oracles /\ Oracles[o].admin # a) => res.res = "NotAdmin"
           /\ (o \in DOMAIN Oracles /\ amount > Oracles[o].withdrawable) =>
                 /\ res.res # "Ok"
                 /\ Oracles[o].admin = a => res.res = "InsufficientFunds"

\* C28 witness: the admin of an oracle with a positive withdrawable can
\* withdraw it to another account, and is refused one unit more.
C28_Witness ==
    \E o \in DOMAIN Oracles :
       /\ Oracles[o].withdrawable > 0
       /\ withdraw_payment(St, Oracles[o].admin, o, Owner, Oracles[o].withdrawable).res = "Ok"
       /\ withdraw_payment(St, Oracles[o].admin, o, Owner, Oracles[o].withdrawable + 1).res = "InsufficientFunds"

\* C29: withdraw_funds(recipient, amount) succeeds only when the caller is
\* the pallet admin and the free balance of the fund minus amount is at
\* least MinimumReserve; a call of another account fails with
\* NotPalletAdmin, a call of the pallet admin with amount above the free
\* balance with InsufficientFunds, one that leaves less than MinimumReserve
\* with InsufficientReserve; a failing call transfers nothing, a successful
\* one moves amount from the fund to the recipient and changes nothing else.
C29_WithdrawFunds ==
    \A a \in ArgCallers, n \in ArgCallers, amount \in ArgWithdrawals :
       LET res == withdraw_funds(St, a, n, amount)
       IN  /\ res.res = "Ok" =>
                 /\ a = PalletAdmin
                 /\ free[Fund] - amount >= MinimumReserve
                 /\ res.st = Transferred(St, n, amount)
           /\ res.res # "Ok" => res.st = St
           /\ IF a # PalletAdmin THEN res.res = "NotPalletAdmin"
              ELSE IF amount > free[Fund] THEN res.res = "InsufficientFunds"
              ELSE IF free[Fund] - amount < MinimumReserve THEN res.res = "InsufficientReserve"
              ELSE TRUE

\* C29 witness: the pallet admin was handed over; the new pallet admin can
\* withdraw what leaves MinimumReserve in the fund and is refused one unit
\* more, and the former pallet admin is refused.
C29_Witness ==
    /\ PalletAdmin # Fund
    /\ free[Fund] > MinimumReserve
    /\ withdraw_funds(St, PalletAdmin, Owner, free[Fund] - MinimumReserve).res = "Ok"
    /\ withdraw_funds(St, PalletAdmin, Owner, free[Fund] - MinimumReserve + 1).res = "InsufficientReserve"
    /\ withdraw_funds(St, Fund, Owner, 1).res = "NotPalletAdmin"

(***************************************************************************)
(* The requesters of a feed.                                               *)
(***************************************************************************)
ArgDelays == {0, 1, 2}

KeepsRequesters(res) == res.st.Requesters = Requesters

last_started_round_of(f, q) ==
    IF << f, q >> \in DOMAIN Requesters THEN Requesters[<< f, q >>].last_started_round ELSE None

\* C30: request_new_round of an account without a Requester record on the
\* feed fails with NotAuthorizedRequester; a successful request_new_round
\* changes of the Requester records only the last_started_round of the
\* caller's.  The records and their delays are written only by set_requester
\* and remove_requester called by the current owner of the feed (another
\* caller gets NotFeedOwner): set_requester stores the delay and keeps the
\* last_started_round of a record that exists, remove_requester removes the
\* record and fails with RequesterNotFound when there is none.  No other
\* call changes the Requester records.
C30_RequestersOnlyByOwner ==
    /\ \A f \in ArgFeeds, a \in ArgCallers :
          LET res == request_new_round(St, a, f)
              k == << f, a >>
          IN  /\ k \notin DOMAIN Requesters => res.res = "NotAuthorizedRequester" /\ res.st = St
              /\ res.res = "Ok" =>
                    /\ k \in DOMAIN Requesters
                    /\ res.st.Requesters =
                          [Requesters EXCEPT ![k].last_started_round = res.st.Requesters[k].last_started_round]
              /\ res.res # "Ok" => res.st = St
    /\ \A f \in DOMAIN Feeds : \A a \in ArgCallers, q \in ArgCallers :
          /\ \A d \in ArgDelays :
                LET res == set_requester(St, a, f, q, d)
                IN  IF Feeds[f].owner = a
                    THEN /\ res.res = "Ok"
                         /\ res.st = [St EXCEPT !.Requesters = Insert(@, << f, q >>,
                                        [delay |-> d, last_started_round |-> last_started_round_of(f, q)])]
                    ELSE res.res = "NotFeedOwner" /\ res.st = St
          /\ LET res == remove_requester(St, a, f, q)
             IN  IF Feeds[f].owner # a THEN res.res = "NotFeedOwner" /\ res.st = St
                 ELSE IF << f, q >> \notin DOMAIN Requesters
                      THEN res.res = "RequesterNotFound" /\ res.st = St
                 ELSE res.res = "Ok" /\ res.st = [St EXCEPT !.Requesters = Remove(@, << f, q >>)]
    /\ \A a \in ArgCallers :
          /\ \A f \in DOMAIN Feeds :
                /\ \A r \in ArgRounds : KeepsRequesters(submit(St, a, f, r, 1))
                /\ \A n \in ArgCallers : KeepsRequesters(transfer_ownership(St, a, f, n))
                /\ KeepsRequesters(accept_ownership(St, a, f))
                /\ \A c \in ArgConfigs : KeepsRequesters(update_future_rounds(St, a, f, c[1], c[2], c[3], c[4]))
                /\ \A d \in DisableArgs, o \in AddArgs : KeepsRequesters(change_oracles(St, a, f, d, o))
                /\ \A first \in ArgRounds, keep \in ArgRounds : KeepsRequesters(prune(St, a, f, first, keep))
                /\ KeepsRequesters(FeedOracle_request_new_round(St, f))
          /\ \A o \in AddArgs : KeepsRequesters(create_feed(St, a, 1, 0, ValueBounds, << 1, 1 >>, 0, << >>, 0, o))

\* C30 witness: the feed has a new owner; a requester that has started a
\* round is stored with delay 0; the new owner can set its delay to 1 and can
\* remove it, the former owner can do neither, and an account without a
\* record is refused a new round.
C30_Witness ==
    \E f \in DOMAIN Feeds :
       /\ Feeds[f].owner = 2
       /\ << f, Owner >> \in DOMAIN Requesters
       /\ << f, 2 >> \notin DOMAIN Requesters
       /\ Requesters[<< f, Owner >>].delay = 0
       /\ is_some(Requesters[<< f, Owner >>].last_started_round)
       /\ set_requester(St, 2, f, Owner, 1).res = "Ok"
       /\ remove_requester(St, 2, f, Owner).res = "Ok"
       /\ set_requester(St, Owner, f, Owner, 1).res = "NotFeedOwner"
       /\ request_new_round(St, 2, f).res = "NotAuthorizedRequester"

(***************************************************************************)
(* The restart delay of the oracles.                                       *)
(***************************************************************************)
\* The submit that returned res has opened round r of feed f.
Opens(res, f, r) ==
    /\ res.res = "Ok"
    /\ r = Feeds[f].reporting_round + 1
    /\ res.st.Feeds[f].reporting_round = r

last_started_of(S, f, o) ==
    IF << f, o >> \in DOMAIN S.OracleStati THEN S.OracleStati[<< f, o >>].last_started_round ELSE None

\* The call leaves the last_started_round of every oracle of feed f as it is.
KeepsStarted(f, res) ==
    \A o \in ArgCallers : last_started_of(res.st, f, o) = last_started_of(St, f, o)

\* C31: a submit of oracle o for round reporting_round + 1 opens the round
\* only when o never started a round or the round is at least
\* last_started_round + restart_delay + 1, and then records the round as the
\* last_started_round of o, so that two rounds o opens one after the other
\* differ by more than the restart_delay of the second opening; a submit
\* that does not open a round, a request for a new round and a prune leave
\* every last_started_round as it is.  The submit of an oracle that may not
\* start a round, for the round after the reporting round when that round has
\* no RoundDetails, fails with NotAcceptingSubmissions and changes nothing.
C31_RestartDelay ==
    \A f \in DOMAIN Feeds :
       /\ \A o \in ArgCallers, r \in ArgRounds, v \in Values :
             LET res == submit(St, o, f, r, v)
                 last == last_started_of(St, f, o)
                 may_start == is_none(last) \/ r >= unwrap(last) + Feeds[f].restart_delay + 1
             IN  /\ Opens(res, f, r) =>
                       /\ may_start
                       /\ is_some(last) => r - unwrap(last) > Feeds[f].restart_delay
                       /\ last_started_of(res.st, f, o) = Some(r)
                       /\ \A c \in ArgCallers \ {o} : last_started_of(res.st, f, c) = last_started_of(St, f, c)
                 /\ ~Opens(res, f, r) =>
                       /\ KeepsStarted(f, res)
                       /\ res.st.Feeds[f].reporting_round = Feeds[f].reporting_round
                 /\ ( /\ r = Feeds[f].reporting_round + 1
                      /\ ensure_round_valid_for(St, f, o, r) = "Ok"
                      /\ InRange(f, v)
                      /\ ~may_start
                      /\ << f, r >> \notin DOMAIN Details )
                       => res.res = "NotAcceptingSubmissions" /\ res.st = St
       /\ \A s \in ArgCallers : KeepsStarted(f, request_new_round(St, s, f))
       /\ KeepsStarted(f, FeedOracle_request_new_round(St, f))
       /\ \A first \in ArgRounds, keep \in ArgRounds : KeepsStarted(f, prune(St, Feeds[f].owner, f, first, keep))

\* C31 witness: under a restart delay of 1 an oracle has opened the reporting
\* round; its submit for the next round is refused, and the submit of the
\* other oracle, which opened the round before, opens it.
C31_Witness ==
    \E f \in DOMAIN Feeds : \E o \in OracleAccounts, c \in OracleAccounts :
       LET r == Feeds[f].reporting_round + 1
       IN  /\ Feeds[f].restart_delay = 1
           /\ last_started_of(St, f, o) = Some(r - 1)
           /\ last_started_of(St, f, c) = Some(r - 2)
           /\ << f, r >> \notin DOMAIN Details
           /\ submit(St, o, f, r, 1).res = "NotAcceptingSubmissions"
           /\ Opens(submit(St, c, f, r, 1), f, r)

ValueType == 0 .. ValueMax

\* C32: every submission stored in a RoundDetails lies within the
\* submission_value_bounds of its feed; a submit of an oracle of the feed
\* with a value below or above them fails with SubmissionBelowMinimum or
\* SubmissionAboveMaximum; and the answer of every round from round 1 on
\* lies within the bounds.
C32_ValuesWithinBounds ==
    /\ \A k \in DOMAIN Details : \A i \in DOMAIN Details[k].submissions :
          InRange(k[1], Details[k].submissions[i])
    /\ \A f \in DOMAIN Feeds : \A o \in ArgCallers, r \in ArgRounds, v \in ValueType :
          LET res == submit(St, o, f, r, v)
          IN  /\ res.res = "Ok" => InRange(f, v)
              /\ ensure_round_valid_for(St, f, o, r) = "Ok" =>
                    /\ v < Feeds[f].submission_value_bounds[1] =>
                          res.res = "SubmissionBelowMinimum" /\ res.st = St
                    /\ v > Feeds[f].submission_value_bounds[2] =>
                          res.res = "SubmissionAboveMaximum" /\ res.st = St
    /\ \A k \in DOMAIN Rounds :
          (k[2] >= 1 /\ is_some(Rounds[k].answer)) => InRange(k[1], unwrap(Rounds[k].answer))

\* The answer, updated_at and answered_in_round of a Round record are all there or all missing.
AllOrNone(round) ==
    \/ is_some(round.answer) /\ is_some(round.updated_at) /\ is_some(round.answered_in_round)
    \/ is_none(round.answer) /\ is_none(round.updated_at) /\ is_none(round.answered_in_round)

\* C33: every stored Round record has its answer, updated_at and
\* answered_in_round either all present or all absent.
C33_AnswerFieldsTogether ==
    \A k \in DOMAIN Rounds : AllOrNone(Rounds[k])

\* C33 witness: a feed holds an answered round after round 0 and a round
\* without answer that was closed by its timeout, its RoundDetails removed.
C33_Witness ==
    \E f \in DOMAIN Feeds : \E r \in RoundIds, q \in RoundIds :
       /\ r >= 1
       /\ has_answer(St, f, r)
       /\ q >= 1
       /\ << f, q >> \in DOMAIN Rounds
       /\ ~has_answer(St, f, q)
       /\ << f, q >> \notin DOMAIN Details
       /\ Rounds[<< f, q >>].started_at > 0

(***************************************************************************)
(* Progress of the rounds.                                                 *)
(***************************************************************************)
\* The id of the round of feed f that was opened last.
Newest(f) == CHOOSE r \in 0 .. MaxRound + 1 :
                /\ << f, r >> \in DOMAIN Rounds
                /\ \A q \in 0 .. MaxRound + 1 : << f, q >> \in DOMAIN Rounds => q <= r

\* The reporting round of feed f was opened after block 0 under a positive
\* timeout that ends before the last block, it has no answer, and an account
\* is a requester of the feed with delay 0.
ReportingRoundPending(f) ==
    LET r == Feeds[f].reporting_round
    IN  /\ r >= 1
        /\ << f, r >> \in DOMAIN Rounds
        /\ ~has_answer(St, f, r)
        /\ Rounds[<< f, r >>].started_at > 0
        /\ Feeds[f].timeout > 0
        /\ Rounds[<< f, r >>].started_at + Feeds[f].timeout < MaxBlock
        /\ \E s \in Callers : << f, s >> \in DOMAIN Requesters /\ Requesters[<< f, s >>].delay = 0

\* C34: when blocks keep ending and the requester keeps calling
\* request_new_round, every state in which the reporting round of a feed is
\* pending is followed by a state in which a round with a higher id than any
\* round opened so far is stored: a new round has been opened.
C34_PendingRoundIsSuperseded ==
    \A m \in 1 .. MaxRound - 1 :
       (0 \in DOMAIN Feeds /\ ReportingRoundPending(0) /\ Newest(0) = m)
          ~> (0 \in DOMAIN Feeds /\ Newest(0) > m)

(***************************************************************************)
(* The latest round of a feed.                                             *)
(***************************************************************************)
\* C35: over every step of every feed, latest_round does not decrease: a
\* submission accepted for an older round that is still open does not move
\* latest_round back below the id of a later round that already has an
\* answer.
C35_LatestRoundNeverDecreases ==
    [][\A f \in DOMAIN Feeds :
          f \in DOMAIN Feeds' => Feeds'[f].latest_round >= Feeds[f].latest_round]_vars

(***************************************************************************)
(* The count of the enabled oracles.                                       *)
(***************************************************************************)
\* The accounts whose OracleStatus on feed f exists with no ending round.
Enabled(f) ==
    { a \in Accounts : /\ << f, a >> \in DOMAIN OracleStati
                       /\ is_none(OracleStati[<< f, a >>].ending_round) }

\* C36: in every reachable state and for every feed, oracle_count is the
\* number of accounts whose OracleStatus on the feed exists with ending_round
\* absent, also after an account was disabled and added again.
C36_OracleCountIsEnabledCount ==
    \A f \in DOMAIN Feeds : Feeds[f].oracle_count = Cardinality(Enabled(f))

\* An oracle of the creation list was disabled and added again: it is
\* enabled and its starting round is no longer the round of the creation.
C36_Witness ==
    \E f \in DOMAIN Feeds : \E a \in Accounts :
       /\ a \in Enabled(f)
       /\ OracleStati[<< f, a >>].starting_round >= 1
       /\ Feeds[f].oracle_count = 2

(***************************************************************************)
(* The records of a round.                                                 *)
(***************************************************************************)
\* submit(o, f, r, _) opens round r and the opening fails with RoundNotFound
\* (close_timed_out_round finds no record of a round).
OpeningFails(o, f, r) ==
    /\ f \in DOMAIN Feeds
    /\ << f, o >> \in DOMAIN OracleStati
    /\ OpeningSubmit(o, f, r)
    /\ initialize_round(St, f, [Feeds[f] EXCEPT !.reporting_round = r], r).res = "RoundNotFound"

\* C37: in every reachable state, whenever a RoundDetails record is stored
\* for (feed, round) the Round record of (feed, round) is stored too; no call
\* of submit returns RoundNotFound from its answer update (the only
\* RoundNotFound of submit is the one of an opening that fails); and every
\* answer that submit computed is the median of a non-empty list: the round
\* has at least one accepted submission.
C37_DetailsImplyRound ==
    /\ \A k \in DOMAIN Details : k \in DOMAIN Rounds
    /\ \A o \in ArgCallers, f \in ArgFeeds, r \in ArgRounds, v \in ArgValues :
          submit(St, o, f, r, v).res = "RoundNotFound" => OpeningFails(o, f, r)
    /\ \A k \in DOMAIN Rounds :
          (k[2] >= 1 /\ Rounds[k].answered_in_round = Some(k[2]))
             => (k \in DOMAIN accepted /\ Len(accepted[k]) >= 1)

\* A round accepts submissions (its details are stored) while another round
\* has the answer submit computed for it and the records of a third round
\* were removed by prune.
C37_Witness ==
    \E f \in DOMAIN Feeds : \E r, q, p \in 1 .. MaxRound :
       /\ << f, r >> \in DOMAIN Details
       /\ << f, q >> \in DOMAIN Rounds
       /\ Rounds[<< f, q >>].answered_in_round = Some(q)
       /\ p < q
       /\ << f, p >> \notin DOMAIN Rounds

====
